---- MODULE Spec2Model ----
(***************************************************************************)
(* AccountingLedger: the multi-ledger generation of the renderer           *)
(* (src/unnamed/part_000) over the JSON file store of src/main.js.         *)
(*                                                                         *)
(* Every handler is one action: the renderer is single-threaded and the    *)
(* handlers are modelled run to completion, with every store write         *)
(* succeeding.  Ids are drawn from per-kind counters (DB.generateId is     *)
(* random; ids of different kinds are never compared).  Strings are ASCII: *)
(* "SATIS" = SATIŞ, "VERESIYE" = VERESİYE, "IKISIDE" = İKİSİDE,            *)
(* "ODEME" = ÖDEME, "IADE" = İADE, "ISIMSIZ" = İSİMSİZ.  A date is a day   *)
(* number, 0 standing for the empty field.  Time stamps (createdDate,      *)
(* lastModified) and the free-text fields that no handler reads (tc, dob,   *)
(* address, productType, unit) are left out of the records.                *)
(***************************************************************************)
EXTENDS Integers, Sequences, FiniteSets, TLC

(* ---- bounds: how many ids of each kind a behaviour may draw ---- *)
MaxDatabases == 3           \* ledgers, under SpecRepo and SpecTrip
MaxIsoDatabases == 2        \* ledgers, under SpecIso
MaxTransactions == 2        \* transactions, under SpecStock and SpecTrip
MaxLedgerTransactions == 1  \* transactions, under Spec, SpecIso and SpecRepo
MaxCustomers == 2
MaxIsoCustomers == 1        \* customers, under SpecIso
MaxProducts == 2            \* products, under SpecStock
MaxLedgerProducts == 1      \* products, under Spec, SpecIso and SpecTrip
MaxStock == 2
MaxAggTransactions == 2     \* the length of the transaction list, under SpecAgg

(* ---- the values the forms are filled with ---- *)
CustomerInputs == {"Ahmet", "Berk"}
Phone == "555"
ProductInputs == {"gubre", "Yok"}
CatalogNames == {"Gubre", "Tohum"}
DatabaseNames == {"Depo", "depo"}
SaleTypes == {"SATIS", "VERESIYE", "IKISIDE", "IADE"}
Quantities == {1, 2}
StockInputs == {1}
PriceInputs == {0, 3}
Amounts == {4}
Dates == {1}
BuyingPrices == {2}
SellingPrices == {3}

NoDatabase == 0

VARIABLES
    databases,          \* let databases: the ledger metadata list
    currentDatabaseId,  \* let currentDatabaseId (NoDatabase = null)
    state,              \* let state = { transactions, customers, products }
    files,              \* the JSON files of the store, by key
    ids,                \* the next id DB.generateId hands out, per kind
    exported,           \* the bundle file written by the last export
    lastOp,             \* history: the handler that ran last and how it ended
    trail,              \* history: a transaction just recorded, followed
                        \* through the next switches of ledger
    tasks               \* the handlers suspended at an await, in the order
                        \* in which their replies arrive

vars == <<databases, currentDatabaseId, state, files, ids, exported, lastOp, trail, tasks>>

(* ---- names ---- *)

\* String.prototype.toLowerCase on the names the model uses
toLowerCase(s) ==
    CASE s = "Ahmet" -> "ahmet"
      [] s = "Berk" -> "berk"
      [] s = "Gubre" -> "gubre"
      [] s = "Tohum" -> "tohum"
      [] s = "Ana Veritabani" -> "ana veritabani"
      [] s = "Depo" -> "depo"
      [] OTHER -> s

\* the order of the lower-cased names under JavaScript's string comparison
NameRank(s) ==
    CASE toLowerCase(s) = "" -> 0
      [] toLowerCase(s) = "ahmet" -> 1
      [] toLowerCase(s) = "berk" -> 2
      [] toLowerCase(s) = "isimsiz" -> 3
      [] OTHER -> 4

(* ---- sequences ---- *)

Range(s) == {s[i] : i \in 1..Len(s)}

\* Array.prototype.filter
Filter(s, keep(_)) == SelectSeq(s, keep)

\* Array.prototype.find / findIndex: the index of the first match, 0 when
\* there is none
Find(s, test(_)) ==
    LET I == {i \in 1..Len(s) : test(s[i])}
    IN  IF I = {} THEN 0 ELSE CHOOSE i \in I : \A j \in I : i <= j

\* Array.prototype.sort, which is stable, under a comparator that orders by
\* an integer key, ascending
SortBy(s, key(_)) ==
    LET pos(i) == 1 + Cardinality({j \in 1..Len(s) :
                        \/ key(s[j]) < key(s[i])
                        \/ key(s[j]) = key(s[i]) /\ j < i})
    IN  [p \in 1..Len(s) |-> s[CHOOSE i \in 1..Len(s) : pos(i) = p]]

(* ---- the store ---- *)

AbsentFile == [tag |-> "absent", data |-> <<>>]
NullFile == [tag |-> "null", data |-> <<>>]
ArrayFile(data) == [tag |-> "array", data |-> data]

NoLedgerFiles == [transactions |-> AbsentFile, customers |-> AbsentFile, products |-> AbsentFile]

\* "database-metadata" and, per ledger id, "db-<id>-transactions",
\* "db-<id>-customers" and "db-<id>-products"; db holds the ids written so far
EmptyStore == [meta |-> AbsentFile, db |-> <<>>]

\* the three files of the keys db-<dbId>-*
LedgerFiles(f, dbId) == IF dbId \in DOMAIN f.db THEN f.db[dbId] ELSE NoLedgerFiles

\* DB.set on the three keys db-<dbId>-*
SetLedgerFiles(w, dbId, t, c, p) ==
    [w EXCEPT !.files.db =
        (dbId :> [transactions |-> t, customers |-> c, products |-> p]) @@ @]

\* DB.get over the load-data handler: a missing file reads as [].  A file
\* holding null is never read (NullNeverRead).
DBget(f) == f.data

(* ---- the application as a value: the globals and the store ---- *)

EmptyState == [transactions |-> <<>>, customers |-> <<>>, products |-> <<>>]

FirstIds == [db |-> 1, tx |-> 1, cust |-> 1, prod |-> 1]

\* the globals as the script leaves them before DOMContentLoaded
Unloaded(f, n) ==
    [databases |-> <<>>, currentDatabaseId |-> NoDatabase, state |-> EmptyState,
     files |-> f, ids |-> n]

World ==
    [databases |-> databases, currentDatabaseId |-> currentDatabaseId,
     state |-> state, files |-> files, ids |-> ids]

(* ---- Ledger Aggregator ---- *)

\* a key that takes the customer as it is written, empty or not
AggregateNameAsWritten(t) == t.customer

\* t.customer || 'ISIMSIZ'
AggregateName(t) == IF t.customer = "" THEN "ISIMSIZ" ELSE t.customer

\* a credit class that takes the returns in
CreditTypesWithReturn == {"VERESIYE", "IADE"}

\* line 426: t.type === 'VERESIYE'
CreditTypes == {"VERESIYE"}

\* a sales class that leaves out the IKISIDE type
SalesTypesWithoutBoth == {"SATIS", "ODEME"}

SalesTypes == {"SATIS", "IKISIDE", "ODEME"}

\* the first loop of updateCustomerAggregates: the aggregates object after
\* transactions i..Len(T), as its keys in insertion order and their values
RECURSIVE Aggregates(_, _, _)
Aggregates(T, i, agg) ==
    IF i > Len(T) THEN agg
    ELSE
        LET t == T[i]
            name == AggregateName(t)
            known == name \in Range(agg.keys)
            a0 == IF known THEN agg.val[name] ELSE [veresiye |-> 0, satis |-> 0]
            a1 == IF t.type \in CreditTypes
                      THEN [a0 EXCEPT !.veresiye = @ + t.total]
                  ELSE IF t.type \in SalesTypes
                      THEN [a0 EXCEPT !.satis = @ + t.total]
                  ELSE a0
        IN  Aggregates(T, i + 1,
                [keys |-> IF known THEN agg.keys ELSE Append(agg.keys, name),
                 val |-> (name :> a1) @@ agg.val])

\* an assignment that adds the sum to what the record holds
AddedToCached(cached, sum) == cached + sum

\* lines 440-441: map[name].veresiye = a.veresiye, the sum takes the place of
\* what the record holds
Assigned(cached, sum) == sum

\* the second loop: write each aggregate into the record map[name] holds (the
\* last customer of that name), or push a synthesized customer
RECURSIVE MergeAggregates(_, _, _, _)
MergeAggregates(C, keys, val, next) ==
    IF keys = <<>> THEN [customers |-> C, next |-> next]
    ELSE
        LET name == Head(keys)
            a == val[name]
            I == {i \in 1..Len(C) : C[i].name = name}
        IN  IF I # {}
            THEN LET k == CHOOSE i \in I : \A j \in I : j <= i
                 IN  MergeAggregates(
                         [C EXCEPT ![k].veresiye = Assigned(@, a.veresiye),
                                   ![k].satis = Assigned(@, a.satis)],
                         Tail(keys), val, next)
            ELSE MergeAggregates(
                     Append(C, [id |-> next, name |-> name, phone |-> "",
                                veresiye |-> a.veresiye, satis |-> a.satis]),
                     Tail(keys), val, next + 1)

\* saveDatabaseMetadata
saveDatabaseMetadata(w) ==
    [w EXCEPT !.files.meta = ArrayFile(w.databases)]

\* a save that writes under the keys of the first ledger of the list
saveCurrentDatabaseUnderFirst(w) ==
    IF w.currentDatabaseId = NoDatabase THEN w
    ELSE saveDatabaseMetadata(
             SetLedgerFiles(w, w.databases[1].id,
                 ArrayFile(w.state.transactions),
                 ArrayFile(w.state.customers),
                 ArrayFile(w.state.products)))

\* saveCurrentDatabase: the three record sets under the current ledger's
\* keys, then the metadata; it returns nothing
saveCurrentDatabase(w) ==
    IF w.currentDatabaseId = NoDatabase THEN w
    ELSE saveDatabaseMetadata(
             SetLedgerFiles(w, w.currentDatabaseId,
                 ArrayFile(w.state.transactions),
                 ArrayFile(w.state.customers),
                 ArrayFile(w.state.products)))

\* updateCustomerAggregates(saveToDB).  Every veresiye and satis of the
\* model is a number, so the typeof coercion of lines 448-451 changes nothing.
updateCustomerAggregates(w, saveToDB) ==
    LET agg == Aggregates(w.state.transactions, 1, [keys |-> <<>>, val |-> <<>>])
        m == MergeAggregates(w.state.customers, agg.keys, agg.val, w.ids.cust)
        w1 == [w EXCEPT !.state.customers = m.customers, !.ids.cust = m.next]
    IN  IF saveToDB THEN saveCurrentDatabase(w1) ELSE w1

(* ---- Ledger Repository ---- *)

IsListed(w, dbId) == \E i \in 1..Len(w.databases) : w.databases[i].id = dbId

\* loadDatabase(dbId).  Every product of the model has a numeric stock, so
\* the normalisation of lines 584-586 changes nothing.
loadDatabase(w, dbId) ==
    IF ~IsListed(w, dbId) THEN w
    ELSE
        LET w1 == [w EXCEPT
                     !.currentDatabaseId = dbId,
                     !.state =
                         [transactions |-> DBget(LedgerFiles(w.files, dbId).transactions),
                          customers |-> DBget(LedgerFiles(w.files, dbId).customers),
                          products |-> DBget(LedgerFiles(w.files, dbId).products)]]
        IN  updateCustomerAggregates(w1, TRUE)

\* createDatabase(name): FALSE for a blank or a duplicate name
CreateAccepted(w, name) ==
    /\ name # ""
    /\ ~\E i \in 1..Len(w.databases) :
            toLowerCase(w.databases[i].name) = toLowerCase(name)

\* a createDatabase that does not switch to the ledger it created
createDatabaseWithoutSwitch(w, name) ==
    IF ~CreateAccepted(w, name) THEN w
    ELSE saveDatabaseMetadata(
             SetLedgerFiles(
                 [w EXCEPT !.ids.db = @ + 1,
                           !.databases = Append(@, [id |-> w.ids.db, name |-> name])],
                 w.ids.db, ArrayFile(<<>>), ArrayFile(<<>>), ArrayFile(<<>>)))

createDatabase(w, name) ==
    IF ~CreateAccepted(w, name) THEN w
    ELSE
        LET dbId == w.ids.db
            w1 == SetLedgerFiles(
                      [w EXCEPT !.ids.db = @ + 1,
                                !.databases = Append(@, [id |-> dbId, name |-> name])],
                      dbId, ArrayFile(<<>>), ArrayFile(<<>>), ArrayFile(<<>>))
            w2 == saveDatabaseMetadata(w1)
        IN  loadDatabase([w2 EXCEPT !.currentDatabaseId = dbId], dbId)

\* a deleteDatabase without the block of lines 553-562
deleteDatabaseKeepCurrent(w, dbId) ==
    IF ~IsListed(w, dbId) THEN w
    ELSE saveDatabaseMetadata(
             [SetLedgerFiles(w, dbId, NullFile, NullFile, NullFile) EXCEPT
                !.databases = Filter(@, LAMBDA db : db.id # dbId)])

\* deleteDatabase(dbId) once the confirm dialog was answered with yes
deleteDatabase(w, dbId) ==
    IF ~IsListed(w, dbId) THEN w
    ELSE
        LET w1 == [SetLedgerFiles(w, dbId, NullFile, NullFile, NullFile) EXCEPT
                     !.databases = Filter(@, LAMBDA db : db.id # dbId)]
            w2 == saveDatabaseMetadata(w1)
        IN  IF w.currentDatabaseId # dbId THEN w2
            ELSE IF Len(w2.databases) > 0
                 THEN loadDatabase(
                          [w2 EXCEPT !.currentDatabaseId = w2.databases[1].id],
                          w2.databases[1].id)
                 ELSE createDatabase(w2, "Ana Veritabani")

\* loadDatabases
loadDatabases(w) ==
    LET w1 == [w EXCEPT !.databases = DBget(w.files.meta)]
    IN  IF Len(w1.databases) > 0 /\ w1.currentDatabaseId = NoDatabase
            THEN [w1 EXCEPT !.currentDatabaseId = w1.databases[1].id]
        ELSE IF Len(w1.databases) = 0
            THEN createDatabase(w1, "Ana Veritabani")
        ELSE w1

\* loadInitialData
loadInitialData(w) ==
    LET w1 == loadDatabases(w)
    IN  IF w1.currentDatabaseId # NoDatabase
        THEN loadDatabase(w1, w1.currentDatabaseId)
        ELSE w1

\* DB.get(key) with the result of the read: the data of the file, or the
\* empty array DB.get returns when the load-data handler reports a failure
DBgetRead(f, success) == IF success THEN DBget(f) ELSE <<>>

\* loadDatabases where the read of database-metadata succeeds or fails
loadDatabasesRead(w, success) ==
    LET w1 == [w EXCEPT !.databases = DBgetRead(w.files.meta, success)]
    IN  IF Len(w1.databases) > 0 /\ w1.currentDatabaseId = NoDatabase
            THEN [w1 EXCEPT !.currentDatabaseId = w1.databases[1].id]
        ELSE IF Len(w1.databases) = 0
            THEN createDatabase(w1, "Ana Veritabani")
        ELSE w1

\* loadInitialData where only the read of database-metadata can fail
loadInitialDataRead(w, success) ==
    LET w1 == loadDatabasesRead(w, success)
    IN  IF w1.currentDatabaseId # NoDatabase
        THEN loadDatabase(w1, w1.currentDatabaseId)
        ELSE w1

\* exportAllDatabases: the bundle's databases array, read back from the store
exportAllDatabases(w) ==
    [i \in 1..Len(w.databases) |->
        [metadata |-> w.databases[i],
         transactions |-> DBget(LedgerFiles(w.files, w.databases[i].id).transactions),
         customers |-> DBget(LedgerFiles(w.files, w.databases[i].id).customers),
         products |-> DBget(LedgerFiles(w.files, w.databases[i].id).products)]]

\* a merge that appends the metadata of every entry of the bundle
ListImportedAlways(w, metadata) ==
    [w EXCEPT !.databases = Append(@, metadata)]

\* lines 720-724: the metadata is pushed unless a ledger of that id is listed
ListImported(w, metadata) ==
    IF IsListed(w, metadata.id) THEN w
    ELSE [w EXCEPT !.databases = Append(@, metadata)]

\* an import that keeps the ledger list it finds and writes only the files
RECURSIVE ImportEntriesUnlisted(_, _, _)
ImportEntriesUnlisted(w, bundle, i) ==
    IF i > Len(bundle) THEN w
    ELSE ImportEntriesUnlisted(
             SetLedgerFiles(w, bundle[i].metadata.id,
                 ArrayFile(bundle[i].transactions),
                 ArrayFile(bundle[i].customers),
                 ArrayFile(bundle[i].products)),
             bundle, i + 1)

\* the for loop of importAllDatabases over the entries i..Len(bundle)
RECURSIVE ImportEntries(_, _, _)
ImportEntries(w, bundle, i) ==
    IF i > Len(bundle) THEN w
    ELSE
        LET dbData == bundle[i]
            w1 == ListImported(w, dbData.metadata)
            w2 == SetLedgerFiles(w1, dbData.metadata.id,
                      ArrayFile(dbData.transactions),
                      ArrayFile(dbData.customers),
                      ArrayFile(dbData.products))
        IN  ImportEntries(w2, bundle, i + 1)

\* importAllDatabases(file) for a file that holds a databases array
importAllDatabases(w, bundle) ==
    LET w1 == saveDatabaseMetadata(ImportEntries(w, bundle, 1))
    IN  IF Len(bundle) > 0 THEN loadDatabase(w1, bundle[1].metadata.id) ELSE w1

\* dbData.metadata is an object; reading .id of a missing metadata throws
HasMetadata(dbData) == "metadata" \in DOMAIN dbData

\* the for loop of importAllDatabases over entries that may lack metadata:
\* the loop ends at the first such entry with a TypeError, after the
\* entries before it were merged and written
RECURSIVE ImportEntriesUntilThrow(_, _, _)
ImportEntriesUntilThrow(w, bundle, i) ==
    IF i > Len(bundle) THEN [w |-> w, thrown |-> FALSE]
    ELSE IF ~HasMetadata(bundle[i]) THEN [w |-> w, thrown |-> TRUE]
    ELSE ImportEntriesUntilThrow(ImportEntries(w, <<bundle[i]>>, 1), bundle, i + 1)

\* importAllDatabases(file) for any parsed file: hasArray says whether
\* importData.databases is an array.  The catch block only logs.
importAllDatabasesFile(w, file) ==
    IF ~file.hasArray THEN w
    ELSE
        LET r == ImportEntriesUntilThrow(w, file.databases, 1)
        IN  IF r.thrown THEN r.w
            ELSE LET w1 == saveDatabaseMetadata(r.w)
                 IN  IF Len(file.databases) > 0
                     THEN loadDatabase(w1, file.databases[1].metadata.id)
                     ELSE w1

(* ---- rendering that reorders the arrays in place ---- *)

\* renderTransactionTable(state.transactions): newest date first
renderTransactionTable(w) ==
    [w EXCEPT !.state.transactions = SortBy(@, LAMBDA t : 0 - t.date)]

\* renderCustomerTable under currentSort = { field: 'name', direction: 'asc' }
renderCustomerTable(w) ==
    [w EXCEPT !.state.customers = SortBy(@, LAMBDA c : NameRank(c.name))]

(* ---- Transaction Processor ---- *)

\* state.products.find(p => p.name.toLowerCase() === productName.toLowerCase())
FindProduct(w, productName) ==
    Find(w.state.products, LAMBDA p : toLowerCase(p.name) = toLowerCase(productName))

\* what "const saved = await saveCurrentDatabase()" binds: the function has
\* no return statement, so saved is undefined
SavedIsTruthy == FALSE

\* lines 843-862 and 893-907: push, save, then the branch on saved
AppendAndSave(w, newTransaction) ==
    LET w1 == [w EXCEPT !.state.transactions = Append(@, newTransaction),
                        !.ids.tx = @ + 1]
        w2 == saveCurrentDatabase(w1)
    IN  IF SavedIsTruthy
        THEN [w |-> renderTransactionTable(updateCustomerAggregates(w2, TRUE)),
              outcome |-> "recorded", tx |-> <<newTransaction>>]
        ELSE [w |-> [w2 EXCEPT !.state.transactions =
                        SubSeq(@, 1, Len(@) - 1)],
              outcome |-> "notSaved", tx |-> <<newTransaction>>]

\* the stock written for a return and for a sale, lines 822 and 830
StockAfterAlwaysSubtract(currentStock, type, quantity) == currentStock - quantity

StockAfter(currentStock, type, quantity) ==
    IF type = "IADE" THEN currentStock + quantity ELSE currentStock - quantity

\* a check that lets every quantity through
StockSufficientAlways(currentStock, type, quantity) == TRUE

\* the sufficiency check of line 825, which a return does not reach
StockSufficient(currentStock, type, quantity) ==
    type = "IADE" \/ ~(currentStock < quantity)

\* a stock logic that writes the new stock before it checks the old one
StockLogicWriteFirst(w, k, type, quantity) ==
    [w |-> [w EXCEPT !.state.products[k].stock = StockAfter(@, type, quantity)],
     ok |-> StockSufficient(w.state.products[k].stock, type, quantity)]

\* the stock logic of lines 818-831 for the product at index k: ok is FALSE
\* when the handler returns at line 827
StockLogic(w, k, type, quantity) ==
    IF ~StockSufficient(w.state.products[k].stock, type, quantity)
    THEN [w |-> w, ok |-> FALSE]
    ELSE [w |-> [w EXCEPT !.state.products[k].stock = StockAfter(@, type, quantity)],
          ok |-> TRUE]

\* a check that asks for the date only
MissingRequiredFieldDateOnly(newTransaction) == newTransaction.date = 0

\* line 811: !date || !customer || !productName || !quantity || !price, where
\* an empty input and the number 0 are both falsy
MissingRequiredField(newTransaction) ==
    \/ newTransaction.date = 0
    \/ newTransaction.customer = ""
    \/ newTransaction.productName = ""
    \/ newTransaction.quantity = 0
    \/ newTransaction.price = 0

\* transactionForm submit
transactionFormSubmit(w, date, customer, type, productName, quantity, priceInput) ==
    LET k == FindProduct(w, productName)
        price == IF priceInput = 0 /\ k # 0
                 THEN w.state.products[k].sellingPrice ELSE priceInput
        newTransaction ==
            [id |-> w.ids.tx, date |-> date, customer |-> customer, type |-> type,
             productName |-> productName, quantity |-> quantity, price |-> price,
             total |-> price * quantity]
    IN  IF MissingRequiredField(newTransaction)
            THEN [w |-> w, outcome |-> "missingFields", tx |-> <<>>]
        ELSE IF k = 0
            THEN [w |-> w, outcome |-> "ProductNotFound", tx |-> <<>>]
        ELSE
            LET stocked == StockLogic(w, k, type, quantity)
            IN  IF ~stocked.ok
                THEN [w |-> stocked.w, outcome |-> "InsufficientStock", tx |-> <<>>]
                ELSE AppendAndSave(saveCurrentDatabase(stocked.w), newTransaction)

\* paymentForm submit
paymentFormSubmit(w, date, customer, paymentAmount) ==
    IF date = 0 \/ customer = "" \/ paymentAmount <= 0
        THEN [w |-> w, outcome |-> "invalid", tx |-> <<>>]
    ELSE AppendAndSave(w,
             [id |-> w.ids.tx, date |-> date, customer |-> customer,
              type |-> "ODEME", productName |-> "Odeme", quantity |-> 1,
              price |-> paymentAmount, total |-> paymentAmount])

\* a delete that gives the stock of a deleted sale back to its product
deleteTransactionRestock(w, id) ==
    LET i == Find(w.state.transactions, LAMBDA t : t.id = id)
        k == IF i = 0 THEN 0 ELSE FindProduct(w, w.state.transactions[i].productName)
        w0 == IF k = 0 THEN w
              ELSE [w EXCEPT !.state.products[k].stock =
                                 @ + w.state.transactions[i].quantity]
        w1 == [w0 EXCEPT !.state.transactions = Filter(@, LAMBDA t : t.id # id)]
    IN  renderTransactionTable(
            updateCustomerAggregates(saveCurrentDatabase(w1), TRUE))

\* the delete button of the transaction table, confirmed
deleteTransaction(w, id) ==
    LET w1 == [w EXCEPT !.state.transactions = Filter(@, LAMBDA t : t.id # id)]
    IN  renderTransactionTable(
            updateCustomerAggregates(saveCurrentDatabase(w1), TRUE))

(* ---- Record Editors ---- *)

\* a duplicate test that compares the names as they are written
NameTakenExactly(customers, name) ==
    \E i \in 1..Len(customers) : customers[i].name = name

\* line 1066: state.customers.find(c => c.name.toLowerCase() === name.toLowerCase())
NameTaken(customers, name) ==
    \E i \in 1..Len(customers) : toLowerCase(customers[i].name) = toLowerCase(name)

\* customerForm submit
customerFormSubmit(w, name) ==
    IF name = ""
        THEN [w |-> w, outcome |-> "blankName"]
    ELSE IF NameTaken(w.state.customers, name)
        THEN [w |-> w, outcome |-> "duplicateName"]
    ELSE
        LET newCustomer == [id |-> w.ids.cust, name |-> name, phone |-> Phone,
                            veresiye |-> 0, satis |-> 0]
            w1 == [w EXCEPT !.state.customers = Append(@, newCustomer),
                            !.ids.cust = @ + 1]
        IN  [w |-> renderCustomerTable(saveCurrentDatabase(w1)), outcome |-> "added"]

\* a rename that leaves the transactions as they are
RenameInTransactionsSkipped(T, oldName, name) == T

\* lines 1652-1660: the transactions of oldName get the new name
RenameInTransactions(T, oldName, name) ==
    [i \in 1..Len(T) |->
        IF oldName # name /\ T[i].customer = oldName
        THEN [T[i] EXCEPT !.customer = name] ELSE T[i]]

\* editCustomerForm submit for the customer the modal was opened on
editCustomerFormSubmit(w, id, name) ==
    LET k == Find(w.state.customers, LAMBDA c : c.id = id)
        updatedCustomer == [id |-> id, name |-> name, phone |-> Phone,
                            veresiye |-> 0, satis |-> 0]
    IN  IF name = ""
            THEN [w |-> w, outcome |-> "blankName"]
        ELSE IF \E i \in 1..Len(w.state.customers) :
                    /\ toLowerCase(w.state.customers[i].name) = toLowerCase(name)
                    /\ w.state.customers[i].id # id
            THEN [w |-> w, outcome |-> "duplicateName"]
        ELSE
            LET oldName == w.state.customers[k].name
                w1 == [w EXCEPT
                         !.state.transactions =
                             RenameInTransactions(@, oldName, name),
                         !.state.customers =
                             [i \in 1..Len(@) |->
                                 IF @[i].id = id THEN updatedCustomer ELSE @[i]]]
            IN  [w |-> renderCustomerTable(
                           updateCustomerAggregates(saveCurrentDatabase(w1), TRUE)),
                 outcome |-> "updated"]

\* a delete that removes the customer and keeps the transactions
deleteCustomerKeepTransactions(w, id, confirmed) ==
    IF ~confirmed THEN [w |-> w, outcome |-> "declined"]
    ELSE
        LET w1 == [w EXCEPT !.state.customers = Filter(@, LAMBDA c : c.id # id)]
        IN  [w |-> renderTransactionTable(renderCustomerTable(
                       updateCustomerAggregates(saveCurrentDatabase(w1), TRUE))),
             outcome |-> "deleted"]

\* the delete button of the customer table; confirmed is the answer to
\* whichever confirm dialog is shown
deleteCustomer(w, id, confirmed) ==
    LET k == Find(w.state.customers, LAMBDA c : c.id = id)
        name == w.state.customers[k].name
    IN  IF ~confirmed THEN [w |-> w, outcome |-> "declined"]
        ELSE
            LET w1 == [w EXCEPT
                         !.state.transactions = Filter(@, LAMBDA t : t.customer # name),
                         !.state.customers = Filter(@, LAMBDA c : c.id # id)]
            IN  [w |-> renderTransactionTable(renderCustomerTable(
                           updateCustomerAggregates(saveCurrentDatabase(w1), TRUE))),
                 outcome |-> "deleted"]

\* productForm submit
productFormSubmit(w, name, buyingPrice, sellingPrice) ==
    IF name = "" \/ buyingPrice = 0 \/ sellingPrice = 0
        THEN [w |-> w, outcome |-> "missingFields"]
    ELSE
        LET newProduct == [id |-> w.ids.prod, name |-> name,
                           buyingPrice |-> buyingPrice,
                           sellingPrice |-> sellingPrice, stock |-> 0]
            w1 == [w EXCEPT !.state.products = Append(@, newProduct),
                            !.ids.prod = @ + 1]
        IN  [w |-> saveCurrentDatabase(w1), outcome |-> "added"]

\* an edit that takes the stock from the form, which has no stock field
editFormSubmitStockReset(w, id, name, buyingPrice, sellingPrice) ==
    LET updatedProduct == [id |-> id, name |-> name, buyingPrice |-> buyingPrice,
                           sellingPrice |-> sellingPrice, stock |-> 0]
        w1 == [w EXCEPT !.state.products =
                  [i \in 1..Len(@) |-> IF @[i].id = id THEN updatedProduct ELSE @[i]]]
    IN  [w |-> saveCurrentDatabase(w1), outcome |-> "updated"]

\* editForm submit (product edit modal): invalid data is only logged
editFormSubmit(w, id, name, buyingPrice, sellingPrice) ==
    LET k == Find(w.state.products, LAMBDA p : p.id = id)
        updatedProduct == [id |-> id, name |-> name, buyingPrice |-> buyingPrice,
                           sellingPrice |-> sellingPrice,
                           stock |-> w.state.products[k].stock]
        w1 == [w EXCEPT !.state.products =
                  [i \in 1..Len(@) |-> IF @[i].id = id THEN updatedProduct ELSE @[i]]]
    IN  [w |-> saveCurrentDatabase(w1), outcome |-> "updated"]

\* the delete button of the product table, confirmed
deleteProduct(w, id) ==
    saveCurrentDatabase([w EXCEPT !.state.products = Filter(@, LAMBDA p : p.id # id)])

\* stockForm submit
stockFormSubmit(w, id, quantityToAdd) ==
    LET k == Find(w.state.products, LAMBDA p : p.id = id)
    IN  IF quantityToAdd <= 0 THEN [w |-> w, outcome |-> "invalidQuantity"]
        ELSE IF k = 0 THEN [w |-> w, outcome |-> "noProduct"]
        ELSE [w |-> saveCurrentDatabase(
                        [w EXCEPT !.state.products[k].stock = @ + quantityToAdd]),
              outcome |-> "stockAdded"]

(* ---- the state machine ---- *)

WithinBounds(w) ==
    /\ w.ids.db <= MaxDatabases + 1
    /\ w.ids.tx <= MaxTransactions + 1
    /\ w.ids.cust <= MaxCustomers + 1
    /\ w.ids.prod <= MaxProducts + 1
    /\ \A i \in 1..Len(w.state.products) : w.state.products[i].stock <= MaxStock

NoTrail == [phase |-> 0, home |-> NoDatabase, tx |-> <<>>]

\* the handler op ends in world w with the given outcome
Becomes(w, op, outcome) ==
    /\ WithinBounds(w)
    /\ databases' = w.databases
    /\ currentDatabaseId' = w.currentDatabaseId
    /\ state' = w.state
    /\ files' = w.files
    /\ ids' = w.ids
    /\ lastOp' = [op |-> op, outcome |-> outcome]

\* the handler ends in world w; last is what the history keeps of it
BecomesWith(w, last) ==
    /\ WithinBounds(w)
    /\ databases' = w.databases
    /\ currentDatabaseId' = w.currentDatabaseId
    /\ state' = w.state
    /\ files' = w.files
    /\ ids' = w.ids
    /\ lastOp' = last

\* trail after a form recorded newTransaction, or rejected the submission
Recorded(r) ==
    /\ trail' = IF r.tx # <<>>
                THEN [phase |-> 1, home |-> currentDatabaseId, tx |-> r.tx]
                ELSE NoTrail
    /\ UNCHANGED tasks

Init ==
    LET w == loadInitialData(Unloaded(EmptyStore, FirstIds))
    IN  /\ databases = w.databases
        /\ currentDatabaseId = w.currentDatabaseId
        /\ state = w.state
        /\ files = w.files
        /\ ids = w.ids
        /\ exported = <<>>
        /\ lastOp = [op |-> "start", outcome |-> "fresh"]
        /\ trail = NoTrail
        /\ tasks = <<>>

TransactionFormSubmit ==
    \E date \in Dates, customer \in CustomerInputs, type \in SaleTypes,
       productName \in ProductInputs, quantity \in Quantities,
       priceInput \in PriceInputs :
        LET r == transactionFormSubmit(World, date, customer, type, productName,
                                       quantity, priceInput)
        IN  /\ Becomes(r.w, "transaction", r.outcome)
            /\ Recorded(r)
            /\ UNCHANGED exported

PaymentFormSubmit ==
    \E date \in Dates, customer \in CustomerInputs, paymentAmount \in Amounts :
        LET r == paymentFormSubmit(World, date, customer, paymentAmount)
        IN  /\ Becomes(r.w, "payment", r.outcome)
            /\ Recorded(r)
            /\ UNCHANGED exported

DeleteTransaction ==
    \E i \in 1..Len(state.transactions), confirmed \in BOOLEAN :
        /\ Becomes(IF confirmed
                   THEN deleteTransaction(World, state.transactions[i].id)
                   ELSE World,
                   "deleteTransaction", IF confirmed THEN "deleted" ELSE "declined")
        /\ trail' = NoTrail
        /\ UNCHANGED tasks
        /\ UNCHANGED exported

CustomerFormSubmit ==
    \E name \in CustomerInputs :
        LET r == customerFormSubmit(World, name)
        IN  /\ Becomes(r.w, "addCustomer", r.outcome)
            /\ trail' = NoTrail
            /\ UNCHANGED tasks
            /\ UNCHANGED exported

EditCustomerFormSubmit ==
    \E i \in 1..Len(state.customers), name \in CustomerInputs :
        LET r == editCustomerFormSubmit(World, state.customers[i].id, name)
        IN  /\ Becomes(r.w, "editCustomer", r.outcome)
            /\ trail' = NoTrail
            /\ UNCHANGED tasks
            /\ UNCHANGED exported

DeleteCustomer ==
    \E i \in 1..Len(state.customers), confirmed \in BOOLEAN :
        LET r == deleteCustomer(World, state.customers[i].id, confirmed)
        IN  /\ Becomes(r.w, "deleteCustomer", r.outcome)
            /\ trail' = NoTrail
            /\ UNCHANGED tasks
            /\ UNCHANGED exported

ProductFormSubmit ==
    \E name \in CatalogNames, buyingPrice \in BuyingPrices,
       sellingPrice \in SellingPrices :
        LET r == productFormSubmit(World, name, buyingPrice, sellingPrice)
        IN  /\ Becomes(r.w, "addProduct", r.outcome)
            /\ trail' = NoTrail
            /\ UNCHANGED tasks
            /\ UNCHANGED exported

EditFormSubmit ==
    \E i \in 1..Len(state.products), name \in CatalogNames,
       buyingPrice \in BuyingPrices, sellingPrice \in SellingPrices :
        LET r == editFormSubmit(World, state.products[i].id, name,
                                buyingPrice, sellingPrice)
        IN  /\ Becomes(r.w, "editProduct", r.outcome)
            /\ trail' = NoTrail
            /\ UNCHANGED tasks
            /\ UNCHANGED exported

DeleteProduct ==
    \E i \in 1..Len(state.products), confirmed \in BOOLEAN :
        /\ Becomes(IF confirmed
                   THEN deleteProduct(World, state.products[i].id)
                   ELSE World,
                   "deleteProduct", IF confirmed THEN "deleted" ELSE "declined")
        /\ trail' = NoTrail
        /\ UNCHANGED tasks
        /\ UNCHANGED exported

StockFormSubmit ==
    \E i \in 1..Len(state.products), quantityToAdd \in StockInputs :
        LET r == stockFormSubmit(World, state.products[i].id, quantityToAdd)
        IN  /\ Becomes(r.w, "addStock", r.outcome)
            /\ trail' = NoTrail
            /\ UNCHANGED tasks
            /\ UNCHANGED exported

\* showTab('transactions') and showTab('customers')
ShowTab ==
    \E tabId \in {"transactions", "customers"} :
        /\ Becomes(IF tabId = "transactions" THEN renderTransactionTable(World)
                   ELSE renderCustomerTable(World),
                   "showTab", tabId)
        /\ trail' = NoTrail
        /\ UNCHANGED tasks
        /\ UNCHANGED exported

CreateDatabaseFormSubmit ==
    \E name \in DatabaseNames :
        /\ Becomes(createDatabase(World, name), "createDatabase",
                   IF CreateAccepted(World, name) THEN "created" ELSE "rejected")
        /\ trail' = NoTrail
        /\ UNCHANGED tasks
        /\ UNCHANGED exported

\* the Ac button, shown for every ledger but the active one
SwitchDatabase ==
    \E i \in 1..Len(databases) :
        /\ databases[i].id # currentDatabaseId
        /\ Becomes(loadDatabase(saveCurrentDatabase(World), databases[i].id),
                   "switchDatabase", "switched")
        /\ trail' = IF trail.phase = 1
                         THEN [trail EXCEPT !.phase = 2]
                     ELSE IF trail.phase = 2 /\ databases[i].id = trail.home
                         THEN [trail EXCEPT !.phase = 3]
                     ELSE NoTrail
        /\ UNCHANGED tasks
        /\ UNCHANGED exported

\* the Sil button of the database table
DeleteDatabase ==
    \E i \in 1..Len(databases), confirmed \in BOOLEAN :
        /\ Becomes(IF confirmed THEN deleteDatabase(World, databases[i].id) ELSE World,
                   "deleteDatabase",
                   IF ~confirmed THEN "declined"
                   ELSE IF Len(databases) = 1 THEN "deletedLast" ELSE "deleted")
        /\ trail' = NoTrail
        /\ UNCHANGED tasks
        /\ UNCHANGED exported

ExportDatabases ==
    LET w == saveCurrentDatabase(World)
    IN  /\ Becomes(w, "export", "exported")
        /\ exported' = exportAllDatabases(w)
        /\ trail' = NoTrail
        /\ UNCHANGED tasks

\* the file chosen is the bundle of the last export
ImportDatabases ==
    /\ exported # <<>>
    /\ Becomes(importAllDatabases(World, exported), "import",
               IF lastOp = [op |-> "start", outcome |-> "fresh"]
               THEN "importedIntoFresh" ELSE "imported")
    /\ trail' = NoTrail
    /\ UNCHANGED tasks
    /\ UNCHANGED exported

\* the application is closed and started again on the same store
Restart ==
    /\ Becomes(loadInitialData(Unloaded(files, ids)), "start", "loaded")
    /\ trail' = NoTrail
    /\ UNCHANGED tasks
    /\ UNCHANGED exported

\* the application is started on an empty store (another machine, or the
\* user data directory removed); the exported file is carried along
StartOnEmptyStore ==
    /\ Becomes(loadInitialData(Unloaded(EmptyStore, ids)), "start", "fresh")
    /\ trail' = NoTrail
    /\ UNCHANGED tasks
    /\ UNCHANGED exported

(* Spec: the handlers that work on the records of one ledger *)
LedgerLimit ==
    /\ ids'.prod <= MaxLedgerProducts + 1
    /\ ids'.tx <= MaxLedgerTransactions + 1

Next ==
    \/ TransactionFormSubmit /\ LedgerLimit
    \/ PaymentFormSubmit /\ LedgerLimit
    \/ DeleteTransaction /\ LedgerLimit
    \/ CustomerFormSubmit /\ LedgerLimit
    \/ EditCustomerFormSubmit /\ LedgerLimit
    \/ DeleteCustomer /\ LedgerLimit
    \/ ProductFormSubmit /\ LedgerLimit
    \/ EditFormSubmit /\ LedgerLimit
    \/ DeleteProduct /\ LedgerLimit
    \/ StockFormSubmit /\ LedgerLimit
    \/ ShowTab /\ LedgerLimit
    \/ Restart /\ LedgerLimit

Spec == Init /\ [][Next]_vars

(* SpecIso: the same handlers over two ledgers, with the switch between them *)
IsoLimit ==
    /\ ids'.db <= MaxIsoDatabases + 1
    /\ ids'.cust <= MaxIsoCustomers + 1
    /\ ids'.prod <= MaxLedgerProducts + 1
    /\ ids'.tx <= MaxLedgerTransactions + 1

NextIso ==
    \/ TransactionFormSubmit /\ IsoLimit
    \/ PaymentFormSubmit /\ IsoLimit
    \/ DeleteTransaction /\ IsoLimit
    \/ CustomerFormSubmit /\ IsoLimit
    \/ EditCustomerFormSubmit /\ IsoLimit
    \/ DeleteCustomer /\ IsoLimit
    \/ ProductFormSubmit /\ IsoLimit
    \/ EditFormSubmit /\ IsoLimit
    \/ DeleteProduct /\ IsoLimit
    \/ StockFormSubmit /\ IsoLimit
    \/ ShowTab /\ IsoLimit
    \/ CreateDatabaseFormSubmit /\ IsoLimit
    \/ SwitchDatabase /\ IsoLimit
    \/ Restart /\ IsoLimit

SpecIso == Init /\ [][NextIso]_vars

(* SpecRepo: the repository's handlers, with payments as the ledgers' content *)
RepoLimit == ids'.tx <= MaxLedgerTransactions + 1

NextRepo ==
    \/ PaymentFormSubmit /\ RepoLimit
    \/ CreateDatabaseFormSubmit /\ RepoLimit
    \/ SwitchDatabase /\ RepoLimit
    \/ DeleteDatabase /\ RepoLimit
    \/ ExportDatabases /\ RepoLimit
    \/ ImportDatabases /\ RepoLimit
    \/ Restart /\ RepoLimit
    \/ StartOnEmptyStore /\ RepoLimit

SpecRepo == Init /\ [][NextRepo]_vars

(* SpecTrip: ledgers are filled, exported, and imported after a start on an *)
(* empty store                                                             *)
TripLimit == ids'.prod <= MaxLedgerProducts + 1

NextTrip ==
    \/ PaymentFormSubmit /\ TripLimit
    \/ ProductFormSubmit /\ TripLimit
    \/ CreateDatabaseFormSubmit /\ TripLimit
    \/ SwitchDatabase /\ TripLimit
    \/ ExportDatabases /\ TripLimit
    \/ ImportDatabases /\ TripLimit
    \/ StartOnEmptyStore /\ TripLimit

SpecTrip == Init /\ [][NextTrip]_vars

(* SpecStock: the handlers that touch the stock of a catalog of two products *)
NextStock ==
    \/ TransactionFormSubmit
    \/ ProductFormSubmit
    \/ EditFormSubmit
    \/ DeleteProduct
    \/ StockFormSubmit

SpecStock == Init /\ [][NextStock]_vars

(* SpecIds: ledgers are created, deleted, exported and imported, also from *)
(* a bundle file that was edited by hand                                    *)

\* importAllDatabases on a file whose databases array holds two entries of
\* the last export, the same entry twice included
ImportEditedBundle ==
    \E i, k \in 1..Len(exported) :
        /\ BecomesWith(importAllDatabases(World, <<exported[i], exported[k]>>),
                       [op |-> "importEdited", outcome |-> "imported",
                        twice |-> (i = k),
                        known |-> IsListed(World, exported[i].metadata.id)])
        /\ trail' = NoTrail
        /\ UNCHANGED tasks
        /\ UNCHANGED exported

NextIds ==
    \/ CreateDatabaseFormSubmit
    \/ SwitchDatabase
    \/ DeleteDatabase
    \/ ExportDatabases
    \/ ImportDatabases
    \/ ImportEditedBundle
    \/ StartOnEmptyStore

SpecIds == Init /\ [][NextIds]_vars

(* SpecForm: the sale form and the payment form filled with every kind of  *)
(* input, empty fields and negative numbers included, over a catalog of one *)
(* product                                                                  *)
FormDates == {0, 1}
FormCustomers == {"", "Ahmet"}
FormProductNames == {"", "gubre", "Yok"}
FormQuantities == {-1, 0, 1}
FormPrices == {0, 3}
FormAmounts == {-4, 0, 4}

TransactionFormSubmitAnyInput ==
    \E date \in FormDates, customer \in FormCustomers, type \in SaleTypes,
       productName \in FormProductNames, quantity \in FormQuantities,
       priceInput \in FormPrices :
        LET r == transactionFormSubmit(World, date, customer, type, productName,
                                       quantity, priceInput)
        IN  /\ BecomesWith(r.w, [op |-> "transaction", outcome |-> r.outcome,
                                 date |-> date, customer |-> customer,
                                 type |-> type, productName |-> productName,
                                 quantity |-> quantity, price |-> priceInput])
            /\ Recorded(r)
            /\ UNCHANGED exported

PaymentFormSubmitAnyInput ==
    \E date \in FormDates, customer \in FormCustomers,
       paymentAmount \in FormAmounts :
        LET r == paymentFormSubmit(World, date, customer, paymentAmount)
        IN  /\ BecomesWith(r.w, [op |-> "payment", outcome |-> r.outcome,
                                 date |-> date, customer |-> customer,
                                 amount |-> paymentAmount])
            /\ Recorded(r)
            /\ UNCHANGED exported

FormLimit ==
    /\ ids'.prod <= MaxLedgerProducts + 1
    /\ ids'.tx <= MaxLedgerTransactions + 1
    /\ \A i \in 1..Len(state'.products) : state'.products[i].stock >= 0 - MaxStock

NextForm ==
    \/ TransactionFormSubmitAnyInput /\ FormLimit
    \/ PaymentFormSubmitAnyInput /\ FormLimit
    \/ ProductFormSubmit /\ FormLimit
    \/ EditFormSubmit /\ FormLimit
    \/ StockFormSubmit /\ FormLimit

SpecForm == Init /\ [][NextForm]_vars

(* SpecSingle: the single-ledger generation (part_001), whose handlers write *)
(* the keys products, transactions and customers one by one through DB.set, *)
(* and where any of these writes can fail                                   *)

\* the globals and the store of the single-ledger generation
Single ==
    [state |-> state, files |-> files, ids |-> ids]

\* DB.set(key, data) of part_001 with the result the main process reports:
\* the file holds data after a write that succeeded and is left as it was
\* after one that failed
DBset(s, key, data, success) ==
    IF success THEN [s EXCEPT !.files[key] = ArrayFile(data)] ELSE s

\* updateCustomerAggregates(true) of part_001, with the result of its write
\* of the customers
singleUpdateCustomerAggregates(s, customersSaved) ==
    LET agg == Aggregates(s.state.transactions, 1, [keys |-> <<>>, val |-> <<>>])
        m == MergeAggregates(s.state.customers, agg.keys, agg.val, s.ids.cust)
        s1 == [s EXCEPT !.state.customers = m.customers, !.ids.cust = m.next]
    IN  DBset(s1, "customers", s1.state.customers, customersSaved)

\* a roll back that leaves the list as it is
popNothing(transactions) == transactions

\* state.transactions.pop()
pop(transactions) == SubSeq(transactions, 1, Len(transactions) - 1)

\* transactionForm submit of part_001; productsSaved, transactionsSaved and
\* customersSaved are the results of the writes the handler gets to
singleTransactionFormSubmit(s, date, customer, type, productName, quantity, priceInput, productsSaved, transactionsSaved, customersSaved) ==
    LET k == FindProduct(s, productName)
        price == IF priceInput = 0 /\ k # 0
                 THEN s.state.products[k].price ELSE priceInput
        newTransaction ==
            [id |-> s.ids.tx, date |-> date, customer |-> customer, type |-> type,
             productName |-> productName, quantity |-> quantity, price |-> price,
             total |-> price * quantity]
    IN  IF MissingRequiredField(newTransaction)
            THEN [s |-> s, outcome |-> "missingFields"]
        ELSE IF k = 0
            THEN [s |-> s, outcome |-> "ProductNotFound"]
        ELSE IF ~StockSufficient(s.state.products[k].stock, type, quantity)
            THEN [s |-> s, outcome |-> "InsufficientStock"]
        ELSE
            LET s1 == [s EXCEPT !.state.products[k].stock =
                                    StockAfter(@, type, quantity)]
                s2 == DBset(s1, "products", s1.state.products, productsSaved)
                s3 == [s2 EXCEPT !.state.transactions = Append(@, newTransaction),
                                 !.ids.tx = @ + 1]
                s4 == DBset(s3, "transactions", s3.state.transactions,
                            transactionsSaved)
            IN  IF transactionsSaved
                THEN [s |-> renderTransactionTable(
                                singleUpdateCustomerAggregates(s4, customersSaved)),
                      outcome |-> "recorded"]
                ELSE [s |-> [s4 EXCEPT !.state.transactions = pop(@)],
                      outcome |-> "notSaved"]

\* productForm submit of part_001: the result of the write is not looked at
singleProductFormSubmit(s, name, price, productsSaved) ==
    IF name = "" \/ price = 0 THEN s
    ELSE
        LET newProduct == [id |-> s.ids.prod, name |-> name, price |-> price,
                           stock |-> 0]
            s1 == [s EXCEPT !.state.products = Append(@, newProduct),
                            !.ids.prod = @ + 1]
        IN  DBset(s1, "products", s1.state.products, productsSaved)

\* stockForm submit of part_001
singleStockFormSubmit(s, id, quantityToAdd, productsSaved) ==
    LET k == Find(s.state.products, LAMBDA p : p.id = id)
    IN  IF quantityToAdd <= 0 \/ k = 0 THEN s
        ELSE LET s1 == [s EXCEPT !.state.products[k].stock = @ + quantityToAdd]
             IN  DBset(s1, "products", s1.state.products, productsSaved)

\* the handler ends with the globals and the store of s
SingleBecomes(s, last) ==
    /\ WithinBounds(s)
    /\ state' = s.state
    /\ files' = s.files
    /\ ids' = s.ids
    /\ lastOp' = last
    /\ trail' = NoTrail
    /\ UNCHANGED tasks
    /\ UNCHANGED <<databases, currentDatabaseId, exported>>

\* loadInitialData of part_001 on a store without files: every DB.get reads
\* [], and updateCustomerAggregates(true) writes the empty customer list
InitSingle ==
    /\ databases = <<>>
    /\ currentDatabaseId = NoDatabase
    /\ state = EmptyState
    /\ files = [transactions |-> AbsentFile, customers |-> ArrayFile(<<>>),
                products |-> AbsentFile]
    /\ ids = FirstIds
    /\ exported = <<>>
    /\ lastOp = [op |-> "start", outcome |-> "fresh"]
    /\ trail = NoTrail
    /\ tasks = <<>>

\* what the sale form of SpecSingle is filled with
SingleTypes == {"VERESIYE", "IADE"}
SinglePrices == {3}

SingleTransactionFormSubmit ==
    \E date \in Dates, customer \in CustomerInputs, type \in SingleTypes,
       productName \in ProductInputs, quantity \in Quantities,
       priceInput \in SinglePrices,
       productsSaved \in BOOLEAN, transactionsSaved \in BOOLEAN,
       customersSaved \in BOOLEAN :
        LET r == singleTransactionFormSubmit(Single, date, customer, type,
                     productName, quantity, priceInput, productsSaved,
                     transactionsSaved, customersSaved)
        IN  SingleBecomes(r.s, [op |-> "transaction", outcome |-> r.outcome,
                                customer |-> customer,
                                type |-> type, productName |-> productName,
                                quantity |-> quantity,
                                productsSaved |-> productsSaved])

SingleProductFormSubmit ==
    \E name \in CatalogNames, price \in SellingPrices, productsSaved \in BOOLEAN :
        SingleBecomes(singleProductFormSubmit(Single, name, price, productsSaved),
                      [op |-> "addProduct", outcome |-> "added"])

SingleStockFormSubmit ==
    \E i \in 1..Len(state.products), quantityToAdd \in StockInputs,
       productsSaved \in BOOLEAN :
        SingleBecomes(singleStockFormSubmit(Single, state.products[i].id,
                                            quantityToAdd, productsSaved),
                      [op |-> "addStock", outcome |-> "stockAdded"])

SingleLimit == ids'.prod <= MaxLedgerProducts + 1

NextSingle ==
    \/ SingleTransactionFormSubmit /\ SingleLimit
    \/ SingleProductFormSubmit /\ SingleLimit
    \/ SingleStockFormSubmit /\ SingleLimit

SpecSingle == InitSingle /\ [][NextSingle]_vars

(* SpecCsv: the bulk import of the single-ledger generation (renderer.js),  *)
(* which reads a transaction table and a product table pasted as CSV        *)

\* the most rows a pasted table has
MaxCsvRows == 2

\* the name the import gives a row without a customer
Unnamed == "ISIMSIZ"

\* the name the import gives a product row without a name
UnknownProduct == "Bilinmeyen Urun"

\* row['ADI SOYADI'] || 'ISIMSIZ'
CustomerOfRow(row) == IF row.customer = "" THEN Unnamed ELSE row.customer

\* the map over transactionData.data: one transaction per row, with the
\* defaults of the columns left empty
RECURSIVE ImportedTransactions(_, _)
ImportedTransactions(rows, next) ==
    IF rows = <<>> THEN <<>>
    ELSE <<[id |-> next, date |-> 1, customer |-> CustomerOfRow(Head(rows)),
            type |-> IF Head(rows).type = "" THEN "SATIS" ELSE Head(rows).type,
            productName |-> UnknownProduct, quantity |-> 1, price |-> 0,
            total |-> Head(rows).total]>>
         \o ImportedTransactions(Tail(rows), next + 1)

\* the map and the filter over productData.data: a row gets an id, and is
\* kept if it has a price above zero and a name
RECURSIVE ImportedProducts(_, _)
ImportedProducts(rows, next) ==
    IF rows = <<>> THEN <<>>
    ELSE LET p == [id |-> next,
                   name |-> IF Head(rows).name = "" THEN UnknownProduct
                            ELSE Head(rows).name,
                   price |-> Head(rows).price, stock |-> 0]
         IN  (IF p.price > 0 /\ p.name # UnknownProduct THEN <<p>> ELSE <<>>)
             \o ImportedProducts(Tail(rows), next + 1)

\* [...new Set(importedTransactions.map(t => t.customer))]: the customers of
\* the transactions, each once, in the order of their first row
RECURSIVE CustomerNamesOf(_, _)
CustomerNamesOf(T, seen) ==
    IF T = <<>> THEN seen
    ELSE CustomerNamesOf(Tail(T),
             IF \E i \in 1..Len(seen) : seen[i] = Head(T).customer
             THEN seen ELSE Append(seen, Head(T).customer))

\* the map over customerNames: a record per name, which gets its totals from
\* updateCustomerAggregates
RECURSIVE ImportedCustomers(_, _)
ImportedCustomers(names, next) ==
    IF names = <<>> THEN <<>>
    ELSE <<[id |-> next, name |-> Head(names), phone |-> "",
            veresiye |-> 0, satis |-> 0]>>
         \o ImportedCustomers(Tail(names), next + 1)

\* loadInitialData of renderer.js: the three lists are read from the store,
\* then updateCustomerAggregates(true) computes and writes the totals
csvLoadInitialData(s, customersSaved) ==
    singleUpdateCustomerAggregates(
        [s EXCEPT !.state = [transactions |-> DBget(s.files.transactions),
                             customers |-> DBget(s.files.customers),
                             products |-> DBget(s.files.products)]],
        customersSaved)

\* importBtn click: the imported lists take the place of the lists of the
\* ledger, are written key by key, and the ledger is loaded from the store;
\* saved holds the keys whose write succeeds
importBtnClick(s, transactionRows, productRows, saved, customersSaved) ==
    LET importedTransactions == ImportedTransactions(transactionRows, s.ids.tx)
        importedProducts == ImportedProducts(productRows, s.ids.prod)
        customerNames == CustomerNamesOf(importedTransactions, <<>>)
        customers == ImportedCustomers(customerNames, s.ids.cust)
        s1 == [s EXCEPT !.state = [transactions |-> importedTransactions,
                                   customers |-> customers,
                                   products |-> importedProducts],
                        !.ids.tx = @ + Len(transactionRows),
                        !.ids.prod = @ + Len(productRows),
                        !.ids.cust = @ + Len(customerNames)]
        s2 == DBset(s1, "transactions", s1.state.transactions,
                    "transactions" \in saved)
        s3 == DBset(s2, "products", s2.state.products, "products" \in saved)
        s4 == DBset(s3, "customers", s3.state.customers, "customers" \in saved)
    IN  csvLoadInitialData(s4, customersSaved)

\* customerForm submit of renderer.js: the result of the write is not looked
\* at, and renderCustomerTable sorts the list in memory by name
csvCustomerFormSubmit(s, name, customersSaved) ==
    IF name = "" \/ NameTaken(s.state.customers, name) THEN s
    ELSE
        LET newCustomer == [id |-> s.ids.cust, name |-> name, phone |-> Phone,
                            veresiye |-> 0, satis |-> 0]
            s1 == [s EXCEPT !.state.customers = Append(@, newCustomer),
                            !.ids.cust = @ + 1]
        IN  renderCustomerTable(
                DBset(s1, "customers", s1.state.customers, customersSaved))

\* the tables pasted into the import tab
CsvCustomers == CustomerInputs \cup {""}
CsvTypes == {"VERESIYE", ""}
CsvTotals == {4}
CsvRow == [customer : CsvCustomers, type : CsvTypes, total : CsvTotals]
CsvTables == UNION {[1..n -> CsvRow] : n \in 1..MaxCsvRows}
CsvProductTables ==
    {<<[name |-> "Gubre", price |-> 3]>>, <<[name |-> "", price |-> 0]>>}

\* the writes of the import that succeed: all three, or all but the one of
\* the customers
CsvSaved ==
    {{"transactions", "products", "customers"}, {"transactions", "products"}}

CsvLimit ==
    /\ ids'.tx <= MaxCsvRows + 1
    /\ ids'.cust <= MaxCustomers + MaxCsvRows

CsvBecomes(s, last) ==
    /\ state' = s.state
    /\ files' = s.files
    /\ ids' = s.ids
    /\ lastOp' = last
    /\ trail' = NoTrail
    /\ UNCHANGED tasks
    /\ UNCHANGED <<databases, currentDatabaseId, exported>>

ImportBtnClick ==
    \E transactionRows \in CsvTables, productRows \in CsvProductTables,
       saved \in CsvSaved, customersSaved \in BOOLEAN :
        CsvBecomes(importBtnClick(Single, transactionRows, productRows, saved,
                                  customersSaved),
                   [op |-> "importCsv", outcome |-> "imported",
                    rows |-> transactionRows, saved |-> saved,
                    customersSaved |-> customersSaved])

CsvCustomerFormSubmit ==
    \E name \in CustomerInputs, customersSaved \in BOOLEAN :
        CsvBecomes(csvCustomerFormSubmit(Single, name, customersSaved),
                   [op |-> "addCustomer", outcome |-> "added"])

NextCsv ==
    \/ ImportBtnClick /\ CsvLimit
    \/ CsvCustomerFormSubmit /\ CsvLimit

SpecCsv == InitSingle /\ [][NextCsv]_vars

(* SpecAwait: the sale form and the payment form of the single-ledger       *)
(* generation (part_001) step by step.  A handler runs up to its next await *)
(* of DB.set without interruption; the main process writes the file when    *)
(* the call is made and answers the calls in the order in which they were   *)
(* made, so the suspended handlers resume first in, first out, and a form   *)
(* can be submitted while handlers are suspended                            *)

\* the most handlers suspended at one time
MaxInFlight == 2

\* a handler suspended at the await of the DB.set of key: the transaction it
\* records, the result the DB.set returns, and the DB.set calls it has made
SuspendedAt(handler, key, tx, saved, log) ==
    [handler |-> handler, key |-> key, tx |-> tx, saved |-> saved,
     log |-> Append(log, [key |-> key, saved |-> saved])]

\* a handler that wrote the customers whatever the write of the transactions
\* returned
SavedAlways(saved) == TRUE

\* line 470 and line 520: if (saved)
Saved(saved) == saved

\* transactionForm submit of part_001 up to its first await, lines 409-459:
\* the checks, the stock logic and the DB.set of the products
singleTransactionFormSubmitted(s, date, customer, type, productName, quantity, priceInput, productsSaved) ==
    LET k == FindProduct(s, productName)
        price == IF priceInput = 0 /\ k # 0
                 THEN s.state.products[k].price ELSE priceInput
        newTransaction ==
            [id |-> s.ids.tx, date |-> date, customer |-> customer, type |-> type,
             productName |-> productName, quantity |-> quantity, price |-> price,
             total |-> price * quantity]
    IN  IF MissingRequiredField(newTransaction)
            THEN [s |-> s, outcome |-> "missingFields", suspended |-> <<>>]
        ELSE IF k = 0
            THEN [s |-> s, outcome |-> "ProductNotFound", suspended |-> <<>>]
        ELSE IF ~StockSufficient(s.state.products[k].stock, type, quantity)
            THEN [s |-> s, outcome |-> "InsufficientStock", suspended |-> <<>>]
        ELSE
            LET s1 == [s EXCEPT !.state.products[k].stock =
                                    StockAfter(@, type, quantity),
                                !.ids.tx = @ + 1]
            IN  [s |-> DBset(s1, "products", s1.state.products, productsSaved),
                 outcome |-> "accepted",
                 suspended |-> <<SuspendedAt("transaction", "products",
                                             newTransaction, productsSaved, <<>>)>>]

\* paymentForm submit of part_001 up to its first await, lines 494-518: the
\* checks, the push and the DB.set of the transactions
singlePaymentFormSubmitted(s, date, customer, paymentAmount, transactionsSaved) ==
    IF date = 0 \/ customer = "" \/ paymentAmount <= 0
        THEN [s |-> s, outcome |-> "invalid", suspended |-> <<>>]
    ELSE
        LET newPaymentTransaction ==
                [id |-> s.ids.tx, date |-> date, customer |-> customer,
                 type |-> "ODEME", productName |-> "Odeme", quantity |-> 1,
                 price |-> paymentAmount, total |-> paymentAmount]
            s1 == [s EXCEPT !.state.transactions = Append(@, newPaymentTransaction),
                            !.ids.tx = @ + 1]
        IN  [s |-> DBset(s1, "transactions", s1.state.transactions,
                         transactionsSaved),
             outcome |-> "accepted",
             suspended |-> <<SuspendedAt("payment", "transactions",
                                         newPaymentTransaction,
                                         transactionsSaved, <<>>)>>]

\* a suspended handler of part_001 from the reply to its DB.set up to its
\* next await or its end; saved is the result of the DB.set it makes next
singleResumed(s, task, saved) ==
    IF task.key = "products" THEN
        \* lines 467-468: the push and the DB.set of the transactions
        LET s1 == [s EXCEPT !.state.transactions = Append(@, task.tx)]
        IN  [s |-> DBset(s1, "transactions", s1.state.transactions, saved),
             outcome |-> "suspended",
             suspended |-> <<SuspendedAt(task.handler, "transactions", task.tx,
                                         saved, task.log)>>,
             log |-> task.log]
    ELSE IF task.key = "transactions" THEN
        IF Saved(task.saved)
        THEN \* lines 470-474: updateCustomerAggregates(true) up to its DB.set
             [s |-> singleUpdateCustomerAggregates(s, saved),
              outcome |-> "suspended",
              suspended |-> <<SuspendedAt(task.handler, "customers", task.tx,
                                          saved, task.log)>>,
              log |-> task.log]
        ELSE \* lines 479-481: the roll back
             [s |-> [s EXCEPT !.state.transactions = pop(@)],
              outcome |-> "notSaved", suspended |-> <<>>, log |-> task.log]
    ELSE
        \* lines 475-477: the rendering, which sorts the list in memory
        [s |-> renderTransactionTable(s), outcome |-> "recorded",
         suspended |-> <<>>, log |-> task.log]

\* the handler step ends with the globals and the store of s
AwaitBecomes(s, last, suspended) ==
    /\ state' = s.state
    /\ files' = s.files
    /\ ids' = s.ids
    /\ lastOp' = last
    /\ tasks' = suspended
    /\ trail' = NoTrail
    /\ UNCHANGED <<databases, currentDatabaseId, exported>>

\* what the sale form of SpecAwait is filled with
AwaitTypes == {"VERESIYE"}
AwaitCustomers == {"Ahmet"}

TransactionFormSubmitted ==
    \E date \in Dates, customer \in AwaitCustomers, type \in AwaitTypes,
       productName \in ProductInputs, quantity \in Quantities,
       priceInput \in SinglePrices, productsSaved \in BOOLEAN :
        LET r == singleTransactionFormSubmitted(Single, date, customer, type,
                     productName, quantity, priceInput, productsSaved)
        IN  AwaitBecomes(r.s, [op |-> "transaction", outcome |-> r.outcome,
                               productName |-> productName,
                               quantity |-> quantity],
                         tasks \o r.suspended)

PaymentFormSubmitted ==
    \E date \in Dates, customer \in AwaitCustomers, paymentAmount \in Amounts,
       transactionsSaved \in BOOLEAN :
        LET r == singlePaymentFormSubmitted(Single, date, customer,
                     paymentAmount, transactionsSaved)
        IN  AwaitBecomes(r.s, [op |-> "payment", outcome |-> r.outcome],
                         tasks \o r.suspended)

Resumed ==
    /\ tasks # <<>>
    /\ \E saved \in BOOLEAN :
        LET r == singleResumed(Single, Head(tasks), saved)
        IN  AwaitBecomes(r.s, [op |-> Head(tasks).handler, outcome |-> r.outcome,
                               tx |-> Head(tasks).tx, log |-> r.log],
                         Tail(tasks) \o r.suspended)

AwaitLimit ==
    /\ Len(tasks') <= MaxInFlight
    /\ ids'.tx <= MaxTransactions + 1
    /\ ids'.prod <= MaxLedgerProducts + 1
    /\ \A i \in 1..Len(state'.products) : state'.products[i].stock <= MaxStock

NextAwait ==
    \/ TransactionFormSubmitted /\ AwaitLimit
    \/ PaymentFormSubmitted /\ AwaitLimit
    \/ Resumed /\ AwaitLimit
    \/ SingleProductFormSubmit /\ AwaitLimit
    \/ SingleStockFormSubmit /\ AwaitLimit

SpecAwait == InitSingle /\ [][NextAwait]_vars

(* SpecSwitch: the switch of ledger and the customer form of the           *)
(* multi-ledger generation (part_000) step by step.  saveCurrentDatabase    *)
(* awaits four DB.set calls and loadDatabase three DB.get calls; a handler  *)
(* runs from one await to the next without interruption, the main process   *)
(* serves a call when it is made, and the replies arrive in that order      *)

\* DB.set(`db-${dbId}-${set}`, data): one file of a ledger
SetLedgerFile(w, dbId, set, data) ==
    [w EXCEPT !.files.db =
        (dbId :> [LedgerFiles(w.files, dbId) EXCEPT ![set] = ArrayFile(data)]) @@ @]

\* the ledger in the key of a DB.set of saveCurrentDatabase: the template
\* `db-${currentDatabaseId}-...` is evaluated when the call is made
KeyOfCurrent(w, task) == w.currentDatabaseId

\* a handler of part_000 suspended at an await: origin is the ledger that was
\* current when it started, call says which saveCurrentDatabase it is in,
\* await which DB call it waits for, dbId the ledger loadDatabase was called
\* with, read what the DB.get returns, log the DB calls made so far
Suspended(task, call, await, db, read) ==
    [task EXCEPT !.call = call, !.await = await, !.read = read,
                 !.log = Append(@, [await |-> await, db |-> db])]

\* loadDatabase up to its first await, lines 569-579
loadDatabaseCalled(w, task) ==
    IF ~IsListed(w, task.dbId)
    THEN [w |-> w, outcome |-> "notFound", suspended |-> <<>>]
    ELSE [w |-> [w EXCEPT !.currentDatabaseId = task.dbId],
          outcome |-> "suspended",
          suspended |-> <<Suspended(task, "load", "getTransactions", task.dbId,
                              DBget(LedgerFiles(w.files, task.dbId).transactions))>>]

\* what follows a saveCurrentDatabase that has returned
saveCurrentDatabaseReturned(w, task) ==
    IF task.call = "click"
        \* line 1271: await loadDatabase(dbId)
        THEN loadDatabaseCalled(w, task)
    ELSE IF task.call = "aggregates"
        \* lines 589-596: the rendering after the load
        THEN [w |-> w, outcome |-> "switched", suspended |-> <<>>]
    ELSE
        \* lines 1079-1082: the rendering after the customer form
        [w |-> renderCustomerTable(w), outcome |-> "added", suspended |-> <<>>]

\* a saveCurrentDatabase that is not waited for: what follows it runs at once
saveCurrentDatabaseNotAwaited(w, task, call) ==
    saveCurrentDatabaseReturned(w, [task EXCEPT !.call = call])

\* saveCurrentDatabase up to its first await, lines 603-612
saveCurrentDatabaseCalled(w, task, call) ==
    [w |-> SetLedgerFile(w, KeyOfCurrent(w, task), "transactions",
                         w.state.transactions),
     outcome |-> "suspended",
     suspended |-> <<Suspended(task, call, "setTransactions",
                               KeyOfCurrent(w, task), <<>>)>>]

\* a suspended handler of part_000 from the reply to its DB call up to its
\* next await or its end
ledgerResumed(w, task) ==
    IF task.await = "setTransactions" THEN
        [w |-> SetLedgerFile(w, KeyOfCurrent(w, task), "customers",
                             w.state.customers),
         outcome |-> "suspended",
         suspended |-> <<Suspended(task, task.call, "setCustomers",
                                   KeyOfCurrent(w, task), <<>>)>>]
    ELSE IF task.await = "setCustomers" THEN
        [w |-> SetLedgerFile(w, KeyOfCurrent(w, task), "products",
                             w.state.products),
         outcome |-> "suspended",
         suspended |-> <<Suspended(task, task.call, "setProducts",
                                   KeyOfCurrent(w, task), <<>>)>>]
    ELSE IF task.await = "setProducts" THEN
        [w |-> saveDatabaseMetadata(w),
         outcome |-> "suspended",
         suspended |-> <<Suspended(task, task.call, "setMetadata", NoDatabase,
                                   <<>>)>>]
    ELSE IF task.await = "setMetadata" THEN
        saveCurrentDatabaseReturned(w, task)
    ELSE IF task.await = "getTransactions" THEN
        [w |-> [w EXCEPT !.state.transactions = task.read],
         outcome |-> "suspended",
         suspended |-> <<Suspended(task, "load", "getCustomers", task.dbId,
                             DBget(LedgerFiles(w.files, task.dbId).customers))>>]
    ELSE IF task.await = "getCustomers" THEN
        [w |-> [w EXCEPT !.state.customers = task.read],
         outcome |-> "suspended",
         suspended |-> <<Suspended(task, "load", "getProducts", task.dbId,
                             DBget(LedgerFiles(w.files, task.dbId).products))>>]
    ELSE
        \* lines 581-588: the products, then updateCustomerAggregates(true) up
        \* to the first await of its saveCurrentDatabase
        saveCurrentDatabaseCalled(
            updateCustomerAggregates([w EXCEPT !.state.products = task.read], FALSE),
            task, "aggregates")

\* a handler that has just started in world w
Started(w, handler, dbId) ==
    [handler |-> handler, origin |-> w.currentDatabaseId, dbId |-> dbId,
     call |-> "", await |-> "", read |-> <<>>, log |-> <<>>]

\* the click on the Ac button of ledger dbId up to its first await, lines
\* 1264-1270
switchClicked(w, dbId) ==
    IF w.currentDatabaseId = NoDatabase
    THEN loadDatabaseCalled(w, Started(w, "switchDatabase", dbId))
    ELSE saveCurrentDatabaseCalled(w, Started(w, "switchDatabase", dbId), "click")

\* customerForm submit of part_000 up to its first await, lines 1050-1077
customerFormSubmitted(w, name) ==
    IF name = ""
        THEN [w |-> w, outcome |-> "blankName", suspended |-> <<>>]
    ELSE IF NameTaken(w.state.customers, name)
        THEN [w |-> w, outcome |-> "duplicateName", suspended |-> <<>>]
    ELSE
        LET newCustomer == [id |-> w.ids.cust, name |-> name, phone |-> Phone,
                            veresiye |-> 0, satis |-> 0]
            w1 == [w EXCEPT !.state.customers = Append(@, newCustomer),
                            !.ids.cust = @ + 1]
        IN  IF w.currentDatabaseId = NoDatabase
            THEN [w |-> renderCustomerTable(w1), outcome |-> "added",
                  suspended |-> <<>>]
            ELSE saveCurrentDatabaseCalled(w1, Started(w, "addCustomer", NoDatabase),
                                           "submit")

\* the handler step ends in world w
SwitchBecomes(w, last, suspended) ==
    /\ databases' = w.databases
    /\ currentDatabaseId' = w.currentDatabaseId
    /\ state' = w.state
    /\ files' = w.files
    /\ ids' = w.ids
    /\ lastOp' = last
    /\ tasks' = suspended
    /\ trail' = NoTrail
    /\ UNCHANGED exported

SwitchClicked ==
    \E i \in 1..Len(databases) :
        /\ databases[i].id # currentDatabaseId
        /\ LET r == switchClicked(World, databases[i].id)
           IN  SwitchBecomes(r.w, [op |-> "switchDatabase", outcome |-> r.outcome],
                             tasks \o r.suspended)

CustomerFormSubmitted ==
    \E name \in CustomerInputs :
        LET r == customerFormSubmitted(World, name)
        IN  SwitchBecomes(r.w, [op |-> "addCustomer", outcome |-> r.outcome],
                          tasks \o r.suspended)

LedgerResumed ==
    /\ tasks # <<>>
    /\ LET r == ledgerResumed(World, Head(tasks))
       IN  SwitchBecomes(r.w,
               [op |-> Head(tasks).handler, outcome |-> r.outcome,
                origin |-> Head(tasks).origin, dbId |-> Head(tasks).dbId,
                log |-> IF r.suspended = <<>> THEN Head(tasks).log
                        ELSE r.suspended[1].log],
               Tail(tasks) \o r.suspended)

\* a ledger is created while no handler is suspended
CreateDatabaseAlone ==
    /\ tasks = <<>>
    /\ CreateDatabaseFormSubmit

SwitchLimit ==
    /\ Len(tasks') <= MaxInFlight
    /\ ids'.db <= MaxIsoDatabases + 1
    /\ ids'.cust <= MaxCustomers + 1

NextSwitch ==
    \/ SwitchClicked /\ SwitchLimit
    \/ CustomerFormSubmitted /\ SwitchLimit
    \/ LedgerResumed /\ SwitchLimit
    \/ CreateDatabaseAlone /\ SwitchLimit

SpecSwitch == Init /\ [][NextSwitch]_vars

(* SpecFail: the customer form, the product form and the stock form of the *)
(* multi-ledger generation when any of the writes of saveCurrentDatabase    *)
(* can fail                                                                 *)

\* the four DB.set calls of saveCurrentDatabase, by what they write
StoreKeys == {"transactions", "customers", "products", "meta"}

\* the writes that succeed in a save: all of them, all but the one of the
\* customers, all but the one of the products, none
WrittenInputs ==
    {StoreKeys, StoreKeys \ {"customers"}, StoreKeys \ {"products"}, {}}

\* saveCurrentDatabase where DB.set succeeds for the keys in written and
\* returns false, leaving the file as it was, for the others; no result is
\* looked at
saveCurrentDatabaseWritten(w, written) ==
    IF w.currentDatabaseId = NoDatabase THEN w
    ELSE
        LET old == LedgerFiles(w.files, w.currentDatabaseId)
            w1 == SetLedgerFiles(w, w.currentDatabaseId,
                      IF "transactions" \in written
                          THEN ArrayFile(w.state.transactions) ELSE old.transactions,
                      IF "customers" \in written
                          THEN ArrayFile(w.state.customers) ELSE old.customers,
                      IF "products" \in written
                          THEN ArrayFile(w.state.products) ELSE old.products)
        IN  IF "meta" \in written THEN saveDatabaseMetadata(w1) ELSE w1

\* customerForm submit, lines 1059-1084
customerFormSubmitWritten(w, name, written) ==
    IF name = ""
        THEN [w |-> w, outcome |-> "blankName"]
    ELSE IF NameTaken(w.state.customers, name)
        THEN [w |-> w, outcome |-> "duplicateName"]
    ELSE
        LET newCustomer == [id |-> w.ids.cust, name |-> name, phone |-> Phone,
                            veresiye |-> 0, satis |-> 0]
            w1 == [w EXCEPT !.state.customers = Append(@, newCustomer),
                            !.ids.cust = @ + 1]
        IN  [w |-> renderCustomerTable(saveCurrentDatabaseWritten(w1, written)),
             outcome |-> "added"]

\* productForm submit, lines 1120-1142
productFormSubmitWritten(w, name, buyingPrice, sellingPrice, written) ==
    IF name = "" \/ buyingPrice = 0 \/ sellingPrice = 0
        THEN [w |-> w, outcome |-> "missingFields"]
    ELSE
        LET newProduct == [id |-> w.ids.prod, name |-> name,
                           buyingPrice |-> buyingPrice,
                           sellingPrice |-> sellingPrice, stock |-> 0]
            w1 == [w EXCEPT !.state.products = Append(@, newProduct),
                            !.ids.prod = @ + 1]
        IN  [w |-> saveCurrentDatabaseWritten(w1, written), outcome |-> "added"]

\* stockForm submit, lines 1576-1594
stockFormSubmitWritten(w, id, quantityToAdd, written) ==
    LET k == Find(w.state.products, LAMBDA p : p.id = id)
    IN  IF quantityToAdd <= 0 THEN [w |-> w, outcome |-> "invalidQuantity"]
        ELSE IF k = 0 THEN [w |-> w, outcome |-> "noProduct"]
        ELSE [w |-> saveCurrentDatabaseWritten(
                        [w EXCEPT !.state.products[k].stock = @ + quantityToAdd],
                        written),
              outcome |-> "stockAdded"]

CustomerFormSubmitWritten ==
    \E name \in CustomerInputs \cup {""}, written \in WrittenInputs :
        LET r == customerFormSubmitWritten(World, name, written)
        IN  /\ BecomesWith(r.w, [op |-> "addCustomer", outcome |-> r.outcome,
                                 set |-> "customers", written |-> written])
            /\ trail' = NoTrail
            /\ UNCHANGED tasks
            /\ UNCHANGED exported

ProductFormSubmitWritten ==
    \E name \in CatalogNames, buyingPrice \in BuyingPrices,
       sellingPrice \in SellingPrices, written \in WrittenInputs :
        LET r == productFormSubmitWritten(World, name, buyingPrice, sellingPrice,
                                          written)
        IN  /\ BecomesWith(r.w, [op |-> "addProduct", outcome |-> r.outcome,
                                 set |-> "products", written |-> written])
            /\ trail' = NoTrail
            /\ UNCHANGED tasks
            /\ UNCHANGED exported

StockFormSubmitWritten ==
    \E i \in 1..Len(state.products), quantityToAdd \in StockInputs \cup {0},
       written \in WrittenInputs :
        LET r == stockFormSubmitWritten(World, state.products[i].id,
                                        quantityToAdd, written)
        IN  /\ BecomesWith(r.w, [op |-> "addStock", outcome |-> r.outcome,
                                 set |-> "products", written |-> written])
            /\ trail' = NoTrail
            /\ UNCHANGED tasks
            /\ UNCHANGED exported

FailLimit == ids'.prod <= MaxLedgerProducts + 1

NextFail ==
    \/ CustomerFormSubmitWritten /\ FailLimit
    \/ ProductFormSubmitWritten /\ FailLimit
    \/ StockFormSubmitWritten /\ FailLimit

SpecFail == Init /\ [][NextFail]_vars

(* SpecBundle: ledgers are created, deleted and exported, and bundle files *)
(* that are malformed are imported                                         *)

\* a bundle entry whose metadata was removed
WithoutMetadata(dbData) ==
    [transactions |-> dbData.transactions, customers |-> dbData.customers,
     products |-> dbData.products]

\* the files made of the last export: the export itself, the same without
\* its databases array, with the last entry stripped of its metadata, and
\* with the first entry stripped of its metadata
BundleFiles ==
    {[kind |-> "whole", hasArray |-> TRUE, databases |-> exported],
     [kind |-> "noArray", hasArray |-> FALSE, databases |-> <<>>],
     [kind |-> "lastWithoutMetadata", hasArray |-> TRUE,
      databases |-> [exported EXCEPT ![Len(exported)] = WithoutMetadata(@)]],
     [kind |-> "firstWithoutMetadata", hasArray |-> TRUE,
      databases |-> [exported EXCEPT ![1] = WithoutMetadata(@)]]}

ImportBundleFile ==
    /\ exported # <<>>
    /\ \E file \in BundleFiles :
           BecomesWith(importAllDatabasesFile(World, file),
                       [op |-> "importFile", outcome |-> file.kind])
    /\ trail' = NoTrail
    /\ UNCHANGED tasks
    /\ UNCHANGED exported

NextBundle ==
    \/ CreateDatabaseFormSubmit
    \/ DeleteDatabase
    \/ ExportDatabases
    \/ ImportBundleFile
    \/ StartOnEmptyStore

SpecBundle == Init /\ [][NextBundle]_vars

(* SpecMerge: ledgers are filled and exported, and the bundle comes back    *)
(* with other ledger names while the ledgers of its ids may still be listed *)

\* the last export with the name of every ledger edited in the file
RenamedBundle ==
    [i \in 1..Len(exported) |->
        [exported[i] EXCEPT !.metadata.name = "Yedek"]]

\* a payment written into a bundle file
BundlePayment ==
    [id |-> 1, date |-> 1, customer |-> "Ahmet", type |-> "ODEME",
     productName |-> "Odeme", quantity |-> 1, price |-> 4, total |-> 4]

\* the renamed bundle, as it is and with a payment written into its first
\* entry, whose customers do not list the payer
EditedBundles ==
    {RenamedBundle,
     [RenamedBundle EXCEPT ![1].transactions = <<BundlePayment>>,
                           ![1].customers = <<>>]}

ImportRenamedBundle ==
    /\ exported # <<>>
    /\ \E bundle \in EditedBundles :
           BecomesWith(importAllDatabases(World, bundle),
                       [op |-> "importRenamed", outcome |-> "imported",
                        bundle |-> bundle])
    /\ trail' = NoTrail
    /\ UNCHANGED tasks
    /\ UNCHANGED exported

MergeLimit ==
    /\ ids'.db <= MaxIsoDatabases + 1
    /\ ids'.prod <= MaxLedgerProducts + 1

NextMerge ==
    \/ CustomerFormSubmit /\ MergeLimit
    \/ ProductFormSubmit /\ MergeLimit
    \/ CreateDatabaseFormSubmit /\ MergeLimit
    \/ DeleteDatabase /\ MergeLimit
    \/ ExportDatabases /\ MergeLimit
    \/ ImportRenamedBundle /\ MergeLimit

SpecMerge == Init /\ [][NextMerge]_vars

(* SpecEdit: the product edit form filled with any name and any prices,   *)
(* over a catalog of two products                                          *)
EditNames == CatalogNames \cup {"", "gubre"}
EditBuyingPrices == {-2, 2}
EditSellingPrices == {-3, 3}

EditFormSubmitAnyInput ==
    \E i \in 1..Len(state.products), name \in EditNames,
       buyingPrice \in EditBuyingPrices, sellingPrice \in EditSellingPrices :
        LET r == editFormSubmit(World, state.products[i].id, name,
                                buyingPrice, sellingPrice)
        IN  /\ BecomesWith(r.w, [op |-> "editProduct", outcome |-> r.outcome,
                                 index |-> i, name |-> name,
                                 buyingPrice |-> buyingPrice,
                                 sellingPrice |-> sellingPrice])
            /\ trail' = NoTrail
            /\ UNCHANGED tasks
            /\ UNCHANGED exported

NextEdit ==
    \/ ProductFormSubmit
    \/ StockFormSubmit
    \/ EditFormSubmitAnyInput

SpecEdit == Init /\ [][NextEdit]_vars

(* SpecNames: the customer forms and the payment form filled with names  *)
(* that differ in case only, and with no name                             *)
AnyCaseNames == {"Ahmet", "ahmet", "Berk"}
FormNames == AnyCaseNames \cup {""}

CustomerFormSubmitAnyName ==
    \E name \in FormNames :
        LET r == customerFormSubmit(World, name)
        IN  /\ BecomesWith(r.w, [op |-> "addCustomer", outcome |-> r.outcome,
                                 name |-> name])
            /\ trail' = NoTrail
            /\ UNCHANGED tasks
            /\ UNCHANGED exported

\* was is the name of the customer the modal was opened on
EditCustomerFormSubmitAnyName ==
    \E i \in 1..Len(state.customers), name \in FormNames :
        LET r == editCustomerFormSubmit(World, state.customers[i].id, name)
        IN  /\ BecomesWith(r.w, [op |-> "editCustomer", outcome |-> r.outcome,
                                 name |-> name, was |-> state.customers[i].name])
            /\ trail' = NoTrail
            /\ UNCHANGED tasks
            /\ UNCHANGED exported

PaymentFormSubmitAnyName ==
    \E date \in Dates, customer \in AnyCaseNames, paymentAmount \in Amounts :
        LET r == paymentFormSubmit(World, date, customer, paymentAmount)
        IN  /\ BecomesWith(r.w, [op |-> "payment", outcome |-> r.outcome,
                                 name |-> customer])
            /\ Recorded(r)
            /\ UNCHANGED exported

NextNames ==
    \/ CustomerFormSubmitAnyName
    \/ EditCustomerFormSubmitAnyName
    \/ PaymentFormSubmitAnyName
    \/ DeleteTransaction
    \/ Restart

SpecNames == Init /\ [][NextNames]_vars

(* SpecStart: ledgers are created and deleted, and the application is     *)
(* started again on its store, whose metadata file may fail to be read      *)
StartWithMetadataRead ==
    \E success \in BOOLEAN :
        /\ Becomes(loadInitialDataRead(Unloaded(files, ids), success), "start",
                   IF success THEN "loaded" ELSE "metadataUnreadable")
        /\ trail' = NoTrail
        /\ UNCHANGED tasks
        /\ UNCHANGED exported

NextStart ==
    \/ CreateDatabaseFormSubmit
    \/ CustomerFormSubmit
    \/ DeleteDatabase
    \/ StartWithMetadataRead

SpecStart == Init /\ [][NextStart]_vars

(* SpecCascade: customers are added, paid for under names of any case,   *)
(* loaded with their transactions, and deleted                              *)
DeleteCustomerRecorded ==
    \E i \in 1..Len(state.customers), confirmed \in BOOLEAN :
        LET r == deleteCustomer(World, state.customers[i].id, confirmed)
        IN  /\ BecomesWith(r.w, [op |-> "deleteCustomer", outcome |-> r.outcome,
                                 id |-> state.customers[i].id,
                                 name |-> state.customers[i].name])
            /\ trail' = NoTrail
            /\ UNCHANGED tasks
            /\ UNCHANGED exported

NextCascade ==
    \/ CustomerFormSubmitAnyName
    \/ PaymentFormSubmitAnyName
    \/ DeleteCustomerRecorded
    \/ Restart

SpecCascade == Init /\ [][NextCascade]_vars

(* SpecDelete: sales and returns against a stocked product, read back from *)
(* the store at a start, and the deletion of transactions and customers    *)

DeleteTransactionRecorded ==
    \E i \in 1..Len(state.transactions), confirmed \in BOOLEAN :
        /\ BecomesWith(IF confirmed
                       THEN deleteTransaction(World, state.transactions[i].id)
                       ELSE World,
                       [op |-> "deleteTransaction",
                        outcome |-> IF confirmed THEN "deleted" ELSE "declined",
                        tx |-> state.transactions[i]])
        /\ trail' = NoTrail
        /\ UNCHANGED tasks
        /\ UNCHANGED exported

DeleteLimit ==
    /\ ids'.prod <= MaxLedgerProducts + 1
    /\ ids'.tx <= MaxTransactions + 1

NextDelete ==
    \/ ProductFormSubmit /\ DeleteLimit
    \/ StockFormSubmit /\ DeleteLimit
    \/ TransactionFormSubmit /\ DeleteLimit
    \/ Restart /\ DeleteLimit
    \/ DeleteTransactionRecorded /\ DeleteLimit
    \/ DeleteCustomerRecorded /\ DeleteLimit

SpecDelete == Init /\ [][NextDelete]_vars

(* SpecAgg: updateCustomerAggregates applied to any transaction list and *)
(* any customer list with distinct names                                 *)
AggCustomerNames == {"Ahmet", "Berk"}
AggTypes == {"SATIS", "VERESIYE", "IKISIDE", "ODEME", "IADE"}
AggTotals == {3, 4}
AggCached == {0, 9}

AggTransactionLists ==
    UNION {[1..n -> [customer : AggCustomerNames, type : AggTypes, total : AggTotals]] :
               n \in 0..MaxAggTransactions}

AggCustomerLists ==
    {c \in UNION {[1..n -> [name : AggCustomerNames, veresiye : AggCached]] : n \in 0..2} :
        \A i, j \in 1..Len(c) : c[i].name = c[j].name => i = j}

\* the ledger as loadDatabase has just read it from the store, before its
\* aggregation pass
AggLoaded(T, C) ==
    [transactions |->
        [i \in 1..Len(T) |->
            [id |-> i, date |-> 1, customer |-> T[i].customer,
             type |-> T[i].type, productName |-> "Gubre", quantity |-> 1,
             price |-> T[i].total, total |-> T[i].total]],
     customers |->
        [i \in 1..Len(C) |->
            [id |-> i, name |-> C[i].name, phone |-> Phone,
             veresiye |-> C[i].veresiye, satis |-> 0]],
     products |-> <<>>]

InitAgg ==
    \E T \in AggTransactionLists, C \in AggCustomerLists :
        /\ databases = <<[id |-> 1, name |-> "Ana Veritabani"]>>
        /\ currentDatabaseId = 1
        /\ state = AggLoaded(T, C)
        /\ files = [meta |-> ArrayFile(<<[id |-> 1, name |-> "Ana Veritabani"]>>),
                    db |-> <<[transactions |-> ArrayFile(AggLoaded(T, C).transactions),
                              customers |-> ArrayFile(AggLoaded(T, C).customers),
                              products |-> ArrayFile(<<>>)]>>]
        /\ ids = [db |-> 2, tx |-> Len(T) + 1, cust |-> Len(C) + 1, prod |-> 1]
        /\ exported = <<>>
        /\ lastOp = [op |-> "loadDatabase", outcome |-> "read"]
        /\ trail = NoTrail
        /\ tasks = <<>>

UpdateCustomerAggregates ==
    \E saveToDB \in BOOLEAN :
        LET w == updateCustomerAggregates(World, saveToDB)
        IN  /\ databases' = w.databases
            /\ currentDatabaseId' = w.currentDatabaseId
            /\ state' = w.state
            /\ files' = w.files
            /\ ids' = w.ids
            /\ lastOp' = [op |-> "updateCustomerAggregates",
                          outcome |-> IF saveToDB THEN "saved" ELSE "notSaved"]
            /\ UNCHANGED <<exported, trail, tasks>>

NextAgg == UpdateCustomerAggregates

SpecAgg == InitAgg /\ [][NextAgg]_vars

(* SpecUnnamed: updateCustomerAggregates applied to transaction lists that *)
(* hold transactions without a customer                                     *)
UnnamedCustomers == {"", "Ahmet"}
UnnamedTypes == {"VERESIYE", "ODEME"}

UnnamedTransactionLists ==
    UNION {[1..n -> [customer : UnnamedCustomers, type : UnnamedTypes,
                     total : AggTotals]] : n \in 0..MaxAggTransactions}

UnnamedCustomerLists ==
    {<<>>, <<[name |-> "Ahmet", veresiye |-> 9]>>,
     <<[name |-> "ISIMSIZ", veresiye |-> 9]>>}

InitUnnamed ==
    \E T \in UnnamedTransactionLists, C \in UnnamedCustomerLists :
        /\ databases = <<[id |-> 1, name |-> "Ana Veritabani"]>>
        /\ currentDatabaseId = 1
        /\ state = AggLoaded(T, C)
        /\ files = [meta |-> ArrayFile(<<[id |-> 1, name |-> "Ana Veritabani"]>>),
                    db |-> <<[transactions |-> ArrayFile(AggLoaded(T, C).transactions),
                              customers |-> ArrayFile(AggLoaded(T, C).customers),
                              products |-> ArrayFile(<<>>)]>>]
        /\ ids = [db |-> 2, tx |-> Len(T) + 1, cust |-> Len(C) + 1, prod |-> 1]
        /\ exported = <<>>
        /\ lastOp = [op |-> "loadDatabase", outcome |-> "read"]
        /\ trail = NoTrail
        /\ tasks = <<>>

SpecUnnamed == InitUnnamed /\ [][NextAgg]_vars

\* a ledger in the list never has a null file, so no load reads null
NullNeverRead ==
    \A i \in 1..Len(databases) :
        /\ LedgerFiles(files, databases[i].id).transactions.tag = "array"
        /\ LedgerFiles(files, databases[i].id).customers.tag = "array"
        /\ LedgerFiles(files, databases[i].id).products.tag = "array"

(* ==================================================================== *)
(* Properties                                                           *)
(* ==================================================================== *)

\* the sum of the totals of the transactions of T at the indices I
RECURSIVE SumOfTotals(_, _)
SumOfTotals(T, I) ==
    IF I = {} THEN 0
    ELSE LET i == CHOOSE j \in I : TRUE
         IN  T[i].total + SumOfTotals(T, I \ {i})

\* the sum of the totals of name's transactions of the given types
TotalOf(T, name, types) ==
    SumOfTotals(T, {i \in 1..Len(T) : T[i].customer = name /\ T[i].type \in types})

\* customer record c carries exactly the sums of its transactions in T
CachedExactly(c, T) ==
    /\ c.veresiye = TotalOf(T, c.name, {"VERESIYE"})
    /\ c.satis = TotalOf(T, c.name, {"SATIS", "IKISIDE", "ODEME"})

\* C1: after updateCustomerAggregates has run on a transaction list, every
\* customer name that appears in the list has a customer record, and that
\* record's veresiye is the sum of the totals of the customer's VERESIYE
\* transactions and its satis the sum of the totals of the customer's SATIS,
\* IKISIDE and ODEME transactions.
C1_AggregateConsistency ==
    lastOp.op = "updateCustomerAggregates" =>
        \A i \in 1..Len(state.transactions) :
            /\ \E k \in 1..Len(state.customers) :
                   state.customers[k].name = state.transactions[i].customer
            /\ \A k \in 1..Len(state.customers) :
                   state.customers[k].name = state.transactions[i].customer
                       => CachedExactly(state.customers[k], state.transactions)

\* a pass has summed two transactions of one customer into satis while
\* another customer's credit went to veresiye
C1_Witness ==
    /\ lastOp.op = "updateCustomerAggregates"
    /\ \E k \in 1..Len(state.customers) :
           /\ state.customers[k].satis = 7
           /\ state.customers[k].veresiye = 0
    /\ \E i, j \in 1..Len(state.transactions) :
           /\ state.transactions[i].type = "IKISIDE"
           /\ state.transactions[j].type = "ODEME"
           /\ state.transactions[i].customer = state.transactions[j].customer

\* C2: immediately after an aggregation pass, the one that follows the
\* deletion of a transaction included, every customer record of the ledger,
\* also one without any transaction left, carries the sums of its
\* transactions; a customer without transactions has veresiye 0 and satis 0.
C2_EveryRecordExact ==
    (\/ lastOp.op = "updateCustomerAggregates"
     \/ lastOp = [op |-> "deleteTransaction", outcome |-> "deleted"])
        => \A k \in 1..Len(state.customers) :
               CachedExactly(state.customers[k], state.transactions)

\* the satis cached in the customer record of the given name, 0 without one
SatisOf(customers, name) ==
    IF \E k \in 1..Len(customers) : customers[k].name = name
    THEN customers[CHOOSE k \in 1..Len(customers) : customers[k].name = name].satis
    ELSE 0

\* the transaction a form has just passed its checks with
Accepted(op) == op.outcome \in {"recorded", "notSaved"}

\* C3: after the sale form has submitted a valid SATIS of quantity q at
\* price p for customer c against a product with stock S >= q, the new
\* transaction with total q * p is in the current ledger's in-memory list
\* and in its persisted list, and c's satis has grown by q * p.
C3_SaleRecorded ==
    [][(/\ lastOp'.op = "transaction"
        /\ Accepted(lastOp')
        /\ trail'.tx[1].type = "SATIS")
       => /\ trail'.tx[1].total = trail'.tx[1].quantity * trail'.tx[1].price
          /\ trail'.tx[1] \in
                 Range(LedgerFiles(files', currentDatabaseId').transactions.data)
          /\ trail'.tx[1] \in Range(state'.transactions)
          /\ SatisOf(state'.customers, trail'.tx[1].customer)
                 = SatisOf(state.customers, trail'.tx[1].customer)
                   + trail'.tx[1].total]_vars

\* C4: an accepted transaction of quantity q against the product of stock S
\* that its name resolves to leaves that stock at S + q when it is an IADE
\* (whatever S is) and at S - q, with q <= S, otherwise; the stock of every
\* other product is what it was, in memory and in the persisted set.
C4_StockConservation ==
    [][(lastOp'.op = "transaction" /\ Accepted(lastOp'))
       => LET tx == trail'.tx[1]
              matches == {i \in 1..Len(state.products) :
                            toLowerCase(state.products[i].name)
                                = toLowerCase(tx.productName)}
              k == CHOOSE i \in matches : \A j \in matches : i <= j
          IN  /\ matches # {}
              /\ Len(state'.products) = Len(state.products)
              /\ tx.type # "IADE" => tx.quantity <= state.products[k].stock
              /\ \A i \in 1..Len(state.products) :
                     state'.products[i].stock =
                         IF i # k THEN state.products[i].stock
                         ELSE IF tx.type = "IADE"
                              THEN state.products[i].stock + tx.quantity
                              ELSE state.products[i].stock - tx.quantity
              /\ LedgerFiles(files', currentDatabaseId').products.data
                     = state'.products]_vars

\* a return of 1 has raised the first of two products from 0 to 1 and left
\* the 2 of the other
C4_Witness ==
    /\ lastOp.op = "transaction" /\ Accepted(lastOp)
    /\ trail.tx[1].type = "IADE" /\ trail.tx[1].quantity = 1
    /\ Len(state.products) = 2
    /\ state.products[1].stock = 1
    /\ state.products[2].stock = 2
    /\ toLowerCase(state.products[1].name) = toLowerCase(trail.tx[1].productName)

\* C5: a submission rejected for insufficient stock or for a product name
\* that matches no catalog product changes nothing: the products and their
\* stock, the transaction list, the customer set, the ledger list and every
\* persisted record set are what they were before the attempt.
C5_RejectedBeforeChange ==
    [][(/\ lastOp'.op = "transaction"
        /\ lastOp'.outcome \in {"InsufficientStock", "ProductNotFound"})
       => UNCHANGED <<state, files, databases, currentDatabaseId>>]_vars

\* a sale of 2 was rejected against a stock of 1 in a ledger that holds a
\* customer
C5_Witness ==
    /\ lastOp = [op |-> "transaction", outcome |-> "InsufficientStock"]
    /\ Len(state.customers) > 0
    /\ \E i \in 1..Len(state.products) : state.products[i].stock = 1

\* C6: a transaction recorded while ledger A is current is not in the
\* transaction list after the switch to ledger B, and is in the transaction
\* list, unchanged, after the switch back to A.
C6_LedgerIsolation ==
    /\ trail.phase = 2 => trail.tx[1] \notin Range(state.transactions)
    /\ trail.phase = 3 =>
           /\ currentDatabaseId = trail.home
           /\ trail.tx[1] \in Range(state.transactions)

\* the persisted record sets of a listed ledger
Persisted(dbId) ==
    [transactions |-> LedgerFiles(files, dbId).transactions.data,
     customers |-> LedgerFiles(files, dbId).customers.data,
     products |-> LedgerFiles(files, dbId).products.data]

\* C7: the confirmed deletion of the only ledger leaves exactly one ledger
\* in the list, a default ledger with a fresh id whose transaction, customer
\* and product sets are empty in memory and in the store, and
\* currentDatabaseId is that ledger's id.
C7_DeleteLastLeavesDefault ==
    lastOp = [op |-> "deleteDatabase", outcome |-> "deletedLast"] =>
        /\ Len(databases) = 1
        /\ databases[1] = [id |-> ids.db - 1, name |-> "Ana Veritabani"]
        /\ currentDatabaseId = databases[1].id
        /\ state = [transactions |-> <<>>, customers |-> <<>>, products |-> <<>>]
        /\ Persisted(databases[1].id) = state
        /\ files.meta = [tag |-> "array", data |-> databases]

\* the only ledger, which held a payment, was deleted: its files are null
\* and a second ledger is there
C7_Witness ==
    /\ lastOp = [op |-> "deleteDatabase", outcome |-> "deletedLast"]
    /\ ids.tx > 1
    /\ \E dbId \in DOMAIN files.db :
           /\ files.db[dbId].transactions.tag = "null"
           /\ dbId # currentDatabaseId

\* C8: after the startup load and after every create, delete, switch and
\* import, the ledger list is not empty and currentDatabaseId is the id of
\* a ledger of the list.
C8_CurrentLedgerListed ==
    /\ Len(databases) > 0
    /\ \E i \in 1..Len(databases) : databases[i].id = currentDatabaseId

\* an import into a ledger list of one has appended two ledgers and made
\* the first of them current
C8_Witness ==
    /\ lastOp.op = "import"
    /\ Len(databases) = 3
    /\ currentDatabaseId = databases[2].id
    /\ currentDatabaseId = exported[1].metadata.id

\* the handlers that work on the records of the current ledger
RecordOps ==
    {"transaction", "payment", "deleteTransaction", "addCustomer", "editCustomer",
     "deleteCustomer", "addProduct", "editProduct", "deleteProduct", "addStock"}

\* C9: recording a transaction or a payment, adding, editing or deleting a
\* customer or a product, deleting a transaction and adding stock leave the
\* persisted transaction, customer and product sets of every ledger but the
\* current one as they were, and leave the current ledger current.
C9_OtherLedgersUntouched ==
    [][lastOp'.op \in RecordOps
       => /\ currentDatabaseId' = currentDatabaseId
          /\ DOMAIN files'.db = DOMAIN files.db
          /\ \A dbId \in DOMAIN files.db :
                 dbId # currentDatabaseId => files'.db[dbId] = files.db[dbId]]_vars

\* a sale passed its checks in the second ledger while the first ledger's
\* store holds a customer
C9_Witness ==
    /\ lastOp.op = "transaction" /\ Accepted(lastOp)
    /\ Len(databases) = 2
    /\ currentDatabaseId = databases[2].id
    /\ Len(Persisted(databases[1].id).customers) > 0

\* the bundle of two ledgers was imported right after a start on an empty
\* store
ImportedTwoIntoFresh ==
    /\ lastOp = [op |-> "import", outcome |-> "importedIntoFresh"]
    /\ Len(exported) = 2

\* C10 as stated: the import of an exported bundle of 2 ledgers into a
\* system started on an empty store yields exactly 2 ledgers, with the ids
\* of the bundle and transaction, customer and product sets identical to
\* the exported ones.
C10_RoundTripExact ==
    ImportedTwoIntoFresh =>
        /\ Len(databases) = 2
        /\ \A i \in 1..2 :
               /\ databases[i].id = exported[i].metadata.id
               /\ Persisted(databases[i].id) =
                      [transactions |-> exported[i].transactions,
                       customers |-> exported[i].customers,
                       products |-> exported[i].products]

\* C10 amended: the import yields 3 ledgers, the default ledger of the
\* start followed by the 2 of the bundle with their metadata; the
\* transaction and product sets of both and the customer set of the second
\* are identical to the exported ones; the first imported ledger is
\* current, and its customer set is the exported one with the cached totals
\* recomputed and a customer added for every transaction name without one.
C10_RoundTripBesideDefault ==
    ImportedTwoIntoFresh =>
        /\ Len(databases) = 3
        /\ databases[1].name = "Ana Veritabani"
        /\ \A i \in 1..2 :
               /\ databases[1].id # exported[i].metadata.id
               /\ databases[i + 1] = exported[i].metadata
               /\ Persisted(databases[i + 1].id).transactions = exported[i].transactions
               /\ Persisted(databases[i + 1].id).products = exported[i].products
        /\ Persisted(databases[3].id).customers = exported[2].customers
        /\ currentDatabaseId = databases[2].id
        /\ state = Persisted(databases[2].id)
        /\ Len(state.customers) >= Len(exported[1].customers)
        /\ \A k \in 1..Len(exported[1].customers) :
               /\ state.customers[k].id = exported[1].customers[k].id
               /\ state.customers[k].name = exported[1].customers[k].name
        /\ \A i \in 1..Len(state.transactions) :
               \E k \in 1..Len(state.customers) :
                   /\ state.customers[k].name = state.transactions[i].customer
                   /\ CachedExactly(state.customers[k], state.transactions)

\* the bundle's first ledger holds a transaction of a customer it has no
\* record of, its second ledger holds a product, and the import gave the
\* first ledger that customer
C10_Witness ==
    /\ ImportedTwoIntoFresh
    /\ Len(exported[1].transactions) > 0
    /\ Len(exported[1].customers) = 0
    /\ Len(exported[2].products) > 0
    /\ Len(state.customers) = 1

\* the sums of name's transactions in T, as the pair an aggregate holds
SumsOf(T, name) ==
    [veresiye |-> TotalOf(T, name, {"VERESIYE"}),
     satis |-> TotalOf(T, name, {"SATIS", "IKISIDE", "ODEME"})]

EqualIgnoringCase(a, b) == toLowerCase(a) = toLowerCase(b)

\* C12: the customer form submitted with no name, or with a name equal,
\* ignoring case, to the name of a customer of the ledger, is rejected: the
\* record sets in memory, with every field of the existing customer, and
\* the whole store are what they were.
C12_DuplicateCustomerRejected ==
    [][(/\ lastOp'.op = "addCustomer"
        /\ \/ lastOp'.name = ""
           \/ \E k \in 1..Len(state.customers) :
                  EqualIgnoringCase(state.customers[k].name, lastOp'.name))
       => /\ lastOp'.outcome \in {"blankName", "duplicateName"}
          /\ UNCHANGED <<state, files, databases, currentDatabaseId, ids>>]_vars

\* the form was submitted with ahmet while the ledger held the customer
\* Ahmet, with a payment to his name, and no customer ahmet
C12_Witness ==
    /\ lastOp.op = "addCustomer" /\ lastOp.name = "ahmet"
    /\ lastOp.outcome = "duplicateName"
    /\ \E k \in 1..Len(state.customers) :
           state.customers[k].name = "Ahmet" /\ state.customers[k].satis = 4
    /\ \A k \in 1..Len(state.customers) : state.customers[k].name # "ahmet"

\* C13: the product form submitted with a name equal, ignoring case, to the
\* name of a product of the catalog is rejected and the product set is what
\* it was: a submission that lengthens the catalog brought a name that no
\* product had.
C13_DuplicateProductRejected ==
    [][(lastOp'.op = "addProduct" /\ Len(state'.products) > Len(state.products))
       => \A k \in 1..Len(state.products) :
              ~EqualIgnoringCase(state.products[k].name,
                                 state'.products[Len(state'.products)].name)]_vars

\* C14: in every reachable state, whatever customers were added or edited
\* and whatever the aggregation passes synthesized from the transactions,
\* no two customer records of the ledger have names that are equal
\* ignoring case.
C14_CustomerNamesUniqueIgnoringCase ==
    \A i, k \in 1..Len(state.customers) :
        EqualIgnoringCase(state.customers[i].name, state.customers[k].name)
            => i = k

\* C15: after any sequence of ledger creations, deletions and imports of a
\* bundle, no two ledgers of the list have names that are equal ignoring
\* case.
C15_LedgerNamesUniqueIgnoringCase ==
    \A i, k \in 1..Len(databases) :
        EqualIgnoringCase(databases[i].name, databases[k].name) => i = k

\* C16: after any sequence of ledger creations and imports, also of a
\* bundle that lists the same ledger twice or a ledger that is already
\* listed, no two entries of the ledger list share an id, in memory and in
\* the persisted metadata.
C16_LedgerIdsUnique ==
    /\ \A i, k \in 1..Len(databases) :
           databases[i].id = databases[k].id => i = k
    /\ \A i, k \in 1..Len(DBget(files.meta)) :
           DBget(files.meta)[i].id = DBget(files.meta)[k].id => i = k

\* a bundle that lists twice a ledger the list did not hold was imported
\* beside another ledger, and the imported ledger is listed once
C16_Witness ==
    /\ lastOp.op = "importEdited" /\ lastOp.twice /\ ~lastOp.known
    /\ Len(databases) = 2
    /\ databases[2].id = currentDatabaseId

\* the ledger and its store are what they were before the step
NoChange == UNCHANGED <<state, files, databases, currentDatabaseId, ids>>

\* the payment form was submitted without a date, without a customer or with
\* an amount that is not positive
PaymentInputInvalid(last) ==
    last.op = "payment" /\ (last.date = 0 \/ last.customer = "" \/ last.amount <= 0)

\* the product the sale form's product name resolves to has a selling price
PriceDefaults(productName) ==
    /\ FindProduct(World, productName) # 0
    /\ state.products[FindProduct(World, productName)].sellingPrice # 0

\* C17 as stated: a sale submitted with the date, the customer, the product
\* name, the quantity or the price empty or zero, and a payment submitted
\* with an empty date or customer or an amount that is not positive, change
\* nothing: the transactions, the customers, the stocks and the store are
\* what they were. Stated for the quantities that are not negative.
C17_EmptyFieldRejected ==
    [][(\/ /\ lastOp'.op = "transaction"
           /\ lastOp'.quantity >= 0
           /\ \/ lastOp'.date = 0 \/ lastOp'.customer = ""
              \/ lastOp'.productName = "" \/ lastOp'.quantity = 0
              \/ lastOp'.price = 0
        \/ PaymentInputInvalid(lastOp'))
       => NoChange]_vars

\* C17 amended: the same, where an empty or zero price counts only when the
\* form cannot take the price from the catalog (no product of that name, or
\* a product without a selling price); the submission then ends at the
\* validation.
C17_EmptyFieldRejectedUnlessPriceDefaults ==
    [][(\/ /\ lastOp'.op = "transaction"
           /\ \/ lastOp'.date = 0 \/ lastOp'.customer = ""
              \/ lastOp'.productName = "" \/ lastOp'.quantity = 0
              \/ lastOp'.price = 0 /\ ~PriceDefaults(lastOp'.productName)
        \/ PaymentInputInvalid(lastOp'))
       => /\ NoChange
          /\ lastOp'.outcome \in {"missingFields", "invalid"}]_vars

\* a sale of a product in stock was submitted without a customer and was
\* rejected at the validation
C17_Witness ==
    /\ lastOp.op = "transaction" /\ lastOp.outcome = "missingFields"
    /\ lastOp.customer = "" /\ lastOp.date # 0 /\ lastOp.quantity > 0
    /\ lastOp.price # 0
    /\ FindProduct(World, lastOp.productName) # 0
    /\ state.products[FindProduct(World, lastOp.productName)].stock > 0

\* C18: a sale, credit or return submitted with a negative quantity is
\* rejected: no product's stock and no transaction list, in memory or in
\* the store, changes.
C18_NegativeQuantityRejected ==
    [][(lastOp'.op = "transaction" /\ lastOp'.quantity < 0)
       => UNCHANGED <<state, files>>]_vars

\* C19: in every reachable state every product of the catalog has a stock
\* that is not negative.
C19_StockNeverNegative ==
    \A i \in 1..Len(state.products) : state.products[i].stock >= 0

\* the index of the product the last sale form named
SoldProduct == FindProduct(Single, lastOp'.productName)

\* C20: in the single-ledger generation, when the write of the transaction
\* list fails after the write of the products succeeded, the in-memory
\* transaction list is the list before the submission, no aggregation pass
\* has run (the customers are what they were, in memory and in the store),
\* and the stock change stays: the product has the new stock in memory and
\* the persisted product set is the in-memory one.
C20_FailedWriteRollsBackListOnly ==
    [][(/\ lastOp'.op = "transaction" /\ lastOp'.outcome = "notSaved"
        /\ lastOp'.productsSaved)
       => /\ state'.transactions = state.transactions
          /\ state'.customers = state.customers
          /\ files'.customers = files.customers
          /\ state'.products[SoldProduct].stock =
                 IF lastOp'.type = "IADE"
                 THEN state.products[SoldProduct].stock + lastOp'.quantity
                 ELSE state.products[SoldProduct].stock - lastOp'.quantity
          /\ DBget(files'.products) = state'.products]_vars

\* a credit sale was recorded for Ahmet, and then a second credit sale took
\* the last unit from the stock and lost its write of the transactions
C20_Witness ==
    /\ lastOp.op = "transaction" /\ lastOp.outcome = "notSaved"
    /\ lastOp.productsSaved /\ lastOp.type = "VERESIYE" /\ lastOp.quantity = 1
    /\ Len(state.transactions) = 1
    /\ state.transactions[1].customer = "Ahmet"
    /\ Len(state.customers) = 1
    /\ Len(state.products) = 1 /\ state.products[1].stock = 0
    /\ DBget(files.products)[1].stock = 0

\* the outcomes of a form that returned at its validation
RejectedOutcomes ==
    {"blankName", "duplicateName", "missingFields", "invalidQuantity", "noProduct"}

\* C21: when the customer form, the product form or the stock form passes
\* its validation and the store write of its record set fails, the record
\* set in memory is what it was before the submission, and the form does
\* not report a success.
C21_FailedWriteRolledBack ==
    [][(/\ lastOp'.op \in {"addCustomer", "addProduct", "addStock"}
        /\ lastOp'.outcome \notin RejectedOutcomes
        /\ lastOp'.set \notin lastOp'.written)
       => /\ state'[lastOp'.set] = state[lastOp'.set]
          /\ lastOp'.outcome \notin {"added", "stockAdded"}]_vars

\* C22: an import of a bundle file without a databases array, or with an
\* entry without metadata, also after entries that are well formed, writes
\* nothing: the store, with every ledger's record sets and the persisted
\* ledger list, and the ledger list in memory are what they were.
C22_MalformedBundleWritesNothing ==
    [][(lastOp'.op = "importFile" /\ lastOp'.outcome # "whole")
       => UNCHANGED <<files, databases>>]_vars

\* the entries of the renamed bundle whose ledger is listed before the import
KnownEntries ==
    {i \in 1..Len(lastOp'.bundle) : IsListed(World, lastOp'.bundle[i].metadata.id)}

\* the import kept the list entry of every ledger it found, added none for an
\* id that was listed, and persisted the list it ended with
LocalMetadataWins ==
    /\ \A k \in 1..Len(databases) : databases'[k] = databases[k]
    /\ \A i \in KnownEntries :
           Cardinality({k \in 1..Len(databases') :
                           databases'[k].id = lastOp'.bundle[i].metadata.id}) = 1
    /\ files'.meta = ArrayFile(databases')

C24_EditKeepsStock ==
    [][lastOp'.op = "editProduct"
       => /\ Len(state'.products) = Len(state.products)
          /\ \A i \in 1..Len(state.products) :
                 /\ state'.products[i].id = state.products[i].id
                 /\ state'.products[i].stock = state.products[i].stock
          /\ DBget(LedgerFiles(files', currentDatabaseId).products)
                 = state'.products]_vars

\* the only product of the catalog was edited while its stock was 2
C24_Witness ==
    /\ lastOp.op = "editProduct" /\ lastOp.outcome = "updated"
    /\ Len(state.products) = 1
    /\ state.products[1].stock = MaxStock

\* C25: the product edit form submitted with a blank name or with a
\* negative buying or selling price is rejected: the product set is what it
\* was, in memory and in the store.
C25_InvalidEditRejected ==
    [][(/\ lastOp'.op = "editProduct"
        /\ \/ lastOp'.name = ""
           \/ lastOp'.buyingPrice < 0
           \/ lastOp'.sellingPrice < 0)
       => UNCHANGED <<state, files>>]_vars

\* no two products of the catalog have names that are equal ignoring case
ProductNamesUnique ==
    \A i, k \in 1..Len(state.products) :
        EqualIgnoringCase(state.products[i].name, state.products[k].name) => i = k

\* C26: in a catalog whose names are unique, the product edit form
\* submitted with a name that equals, ignoring case, the name of another
\* product of the catalog is rejected, and the product set is what it was.
C26_CollidingEditRejected ==
    [][(/\ lastOp'.op = "editProduct"
        /\ ProductNamesUnique
        /\ \E k \in 1..Len(state.products) :
               /\ k # lastOp'.index
               /\ EqualIgnoringCase(state.products[k].name, lastOp'.name))
       => UNCHANGED <<state, files>>]_vars

\* the transactions of T whose customer is written exactly as name
TransactionsOf(T, name) == {i \in 1..Len(T) : T[i].customer = name}

\* C27: the delete button pressed for a customer that has transactions.
\* After a confirmed deletion no record has the customer's id, no
\* transaction carries the customer's name, in memory and in the store, and
\* no customer of that name is there after the aggregation pass; after a
\* declined one the customers and the transactions are what they were.
C27_DeleteCascades ==
    [][(/\ lastOp'.op = "deleteCustomer"
        /\ TransactionsOf(state.transactions, lastOp'.name) # {})
       => IF lastOp'.outcome = "deleted"
          THEN /\ \A k \in 1..Len(state'.customers) :
                      /\ state'.customers[k].id # lastOp'.id
                      /\ state'.customers[k].name # lastOp'.name
               /\ TransactionsOf(state'.transactions, lastOp'.name) = {}
               /\ DBget(LedgerFiles(files', currentDatabaseId).transactions)
                      = state'.transactions
               /\ Range(DBget(LedgerFiles(files', currentDatabaseId).customers))
                      = Range(state'.customers)
          ELSE UNCHANGED <<state, files>>]_vars

\* Ahmet, who had a payment, was deleted; the payment made under the name
\* ahmet and the customer ahmet are still there
C27_Witness ==
    /\ lastOp.op = "deleteCustomer" /\ lastOp.outcome = "deleted"
    /\ lastOp.name = "Ahmet"
    /\ ids.tx = MaxTransactions + 1
    /\ Len(state.transactions) = 1 /\ state.transactions[1].customer = "ahmet"
    /\ Len(state.customers) = 1 /\ state.customers[1].name = "ahmet"

\* C28: a return that passes the checks of the sale form raises the stock
\* of its product by its quantity and contributes to no aggregate: every
\* customer record there was is there unchanged, and a record the
\* aggregation pass adds is a record of the return's customer with a
\* veresiye and a satis of 0.
C28_ReturnLeavesAggregates ==
    [][(/\ lastOp'.op = "transaction" /\ lastOp'.type = "IADE"
        /\ lastOp'.outcome \in {"recorded", "notSaved"})
       => /\ state'.products[SoldProduct].stock =
                 state.products[SoldProduct].stock + lastOp'.quantity
          /\ \A k \in 1..Len(state.customers) :
                 state.customers[k] \in Range(state'.customers)
          /\ \A k \in 1..Len(state'.customers) :
                 \/ state'.customers[k] \in Range(state.customers)
                 \/ /\ state'.customers[k].name = lastOp'.customer
                    /\ state'.customers[k].veresiye = 0
                    /\ state'.customers[k].satis = 0]_vars

\* a return of Ahmet was recorded after a credit sale to Ahmet: the list
\* holds both, and Ahmet owes what the credit sale was worth
C28_Witness ==
    /\ lastOp.op = "transaction" /\ lastOp.type = "IADE"
    /\ lastOp.outcome = "recorded" /\ lastOp.customer = "Ahmet"
    /\ Len(state.transactions) = 2
    /\ \E k \in 1..Len(state.customers) :
           /\ state.customers[k].name = "Ahmet"
           /\ state.customers[k].veresiye > 0

\* C29: a start of the application during which the read of the ledger
\* list fails does not overwrite the persisted list: every ledger that was
\* listed in the store before the start is listed in it after.
C29_UnreadableMetadataKept ==
    [][(lastOp'.op = "start" /\ lastOp'.outcome = "metadataUnreadable")
       => Range(DBget(files.meta)) \subseteq Range(DBget(files'.meta))]_vars

\* the names of a customer list
NamesOf(C) == {C[i].name : i \in 1..Len(C)}

\* no two records of a customer list have the same name
NoNameTwice(C) == \A i, j \in 1..Len(C) : C[i].name = C[j].name => i = j

\* the customer values of the rows of a pasted table, as the import reads them
RowCustomers(rows) == {CustomerOfRow(rows[i]) : i \in 1..Len(rows)}

\* C30: after a CSV import all of whose writes succeed, the customers of the
\* ledger are the customers of the imported rows without the unnamed
\* sentinel, together with the customers the ledger had before, each of
\* them once
C30_CsvImportMergesCustomers ==
    [][(lastOp'.op = "importCsv"
        /\ Cardinality(lastOp'.saved) = 3 /\ lastOp'.customersSaved)
       => /\ NamesOf(state'.customers)
                = (RowCustomers(lastOp'.rows) \ {Unnamed}) \cup NamesOf(state.customers)
          /\ NoNameTwice(state'.customers)]_vars

\* C31: a second updateCustomerAggregates in a row, on the transactions and
\* the customers the first one left, leaves the customer list as the first
\* one made it: every veresiye and satis is what it was, and no customer is
\* synthesized
C31_SecondPassChangesNothing ==
    [][(lastOp.op = "updateCustomerAggregates"
        /\ lastOp'.op = "updateCustomerAggregates")
       => /\ state'.customers = state.customers
          /\ state'.transactions = state.transactions
          /\ ids'.cust = ids.cust]_vars

\* a pass that did not save has followed a pass that saved a synthesized
\* customer with a credit beside a record whose cached credit it replaced
C31_Witness ==
    /\ lastOp = [op |-> "updateCustomerAggregates", outcome |-> "notSaved"]
    /\ files.db[1].customers.data = state.customers
    /\ \E k \in 1..Len(state.customers) :
           /\ state.customers[k].phone = ""
           /\ state.customers[k].veresiye = 3
    /\ \E k \in 1..Len(state.customers) :
           /\ state.customers[k].phone = Phone
           /\ state.customers[k].satis = 4

\* the keys of the DB.set calls of a log, in the order of the calls
KeysOf(log) == [i \in 1..Len(log) |-> log[i].key]

\* C32: a sale handler of part_001 that ends having recorded its transaction
\* has called DB.set for the products, then for the transactions, then for
\* the customers, and a sale handler whose write of the transactions failed
\* ends without a DB.set of the customers
C32_WritesInOrder ==
    (lastOp.op = "transaction" /\ lastOp.outcome \in {"recorded", "notSaved"})
        => /\ lastOp.outcome = "recorded"
                => KeysOf(lastOp.log) = <<"products", "transactions", "customers">>
           /\ (\E i \in 1..Len(lastOp.log) :
                   lastOp.log[i].key = "transactions" /\ ~lastOp.log[i].saved)
                => \A j \in 1..Len(lastOp.log) : lastOp.log[j].key # "customers"

\* a sale has been recorded with its three writes while a second handler is
\* suspended
C32_Witness ==
    /\ lastOp.op = "transaction" /\ lastOp.outcome = "recorded"
    /\ Len(lastOp.log) = 3
    /\ lastOp.tx \in Range(state.transactions)
    /\ files.customers.data # <<>>
    /\ tasks # <<>>

\* a sale whose write of the transactions failed has ended after two writes
C32_WitnessFailed ==
    /\ lastOp.op = "transaction" /\ lastOp.outcome = "notSaved"
    /\ KeysOf(lastOp.log) = <<"products", "transactions">>

\* the list without the transaction of the given id
WithoutTransaction(T, id) == SelectSeq(T, LAMBDA t : t.id # id)

\* C35: when a sale or a payment ends with the roll back of a failed write,
\* the list in memory loses the transaction of that handler and no other:
\* a transaction whose write succeeded stays in the list
C35_RollbackRemovesOwnTransaction ==
    [][lastOp'.outcome = "notSaved"
       => state'.transactions
              = WithoutTransaction(state.transactions, lastOp'.tx.id)]_vars

\* C36: with sales of one product in flight at once, a sale is accepted only
\* if its quantity is within the stock that the sales accepted before it have
\* left, its decrement is made in the step of its check, no later step of a
\* handler touches the stock, and no stock goes below 0
C36_StockCheckAtomic ==
    [][/\ (lastOp'.op = "transaction" /\ lastOp'.outcome = "accepted")
           => LET k == FindProduct(Single, lastOp'.productName)
              IN  /\ state.products[k].stock >= lastOp'.quantity
                  /\ state'.products[k].stock
                         = state.products[k].stock - lastOp'.quantity
       /\ (lastOp'.op \in {"transaction", "payment"}
              /\ lastOp'.outcome # "accepted")
           => state'.products = state.products
       /\ \A i \in 1..Len(state'.products) : state'.products[i].stock >= 0]_vars

\* two sales of the same product are suspended at once, and they have taken
\* the whole stock of MaxStock
C36_Witness ==
    /\ Len(tasks) = 2
    /\ tasks[1].handler = "transaction" /\ tasks[2].handler = "transaction"
    /\ tasks[1].tx.productName = tasks[2].tx.productName
    /\ tasks[1].tx.quantity + tasks[2].tx.quantity = MaxStock
    /\ state.products[FindProduct(Single, tasks[1].tx.productName)].stock = 0
    /\ lastOp.op = "transaction" /\ lastOp.outcome = "accepted"

\* the DB.get calls of loadDatabase
LoadCalls == {"getTransactions", "getCustomers", "getProducts"}

PersistedIds(f) ==
    [set \in {"transactions", "customers", "products"} |->
        {f[set].data[i].id : i \in 1..Len(f[set].data)}]

\* C34: whatever handler runs while a loadDatabase is suspended, no record
\* is in the persisted record sets of two ledgers: the files of a ledger
\* hold only records made in that ledger
C34_LedgersNeverMixed ==
    \A a, b \in DOMAIN files.db :
        a # b => \A set \in {"transactions", "customers", "products"} :
                     PersistedIds(files.db[a])[set]
                         \cap PersistedIds(files.db[b])[set] = {}

\* C37: with no handler suspended and every write successful, each of the
\* three files of the current ledger holds exactly the records of the list
\* in memory
C37_PersistedIsMemory ==
    (tasks = <<>> /\ currentDatabaseId # NoDatabase)
        => \A set \in {"transactions", "customers", "products"} :
               Range(LedgerFiles(files, currentDatabaseId)[set].data)
                   = Range(state[set])

\* the name a transaction counts under: the sentinel for an empty customer
NameOrSentinel(t) == IF t.customer = "" THEN "ISIMSIZ" ELSE t.customer

\* the sum of the totals of the transactions of T that count under name and
\* have one of the types
SumUnder(T, name, types) ==
    SumOfTotals(T, {i \in 1..Len(T) : NameOrSentinel(T[i]) = name
                                       /\ T[i].type \in types})

\* C38: after an aggregation pass every name a transaction counts under, the
\* sentinel for a transaction without customer, has a customer record of
\* exactly that name, and a name that had no record before the pass has one
\* with an empty phone and the sums of its transactions as veresiye and satis
C38_EveryNameHasRecord ==
    [][lastOp'.op = "updateCustomerAggregates"
       => \A i \in 1..Len(state'.transactions) :
              LET name == NameOrSentinel(state'.transactions[i])
              IN  /\ \E k \in 1..Len(state'.customers) :
                         state'.customers[k].name = name
                  /\ (~\E k \in 1..Len(state.customers) :
                          state.customers[k].name = name)
                     => \E k \in 1..Len(state'.customers) :
                            /\ state'.customers[k].name = name
                            /\ state'.customers[k].phone = ""
                            /\ state'.customers[k].veresiye
                                   = SumUnder(state'.transactions, name, {"VERESIYE"})
                            /\ state'.customers[k].satis
                                   = SumUnder(state'.transactions, name,
                                              {"SATIS", "IKISIDE", "ODEME"})]_vars

\* a pass has synthesized the sentinel customer for two transactions without
\* a customer, beside the record of Ahmet
C38_Witness ==
    /\ lastOp.op = "updateCustomerAggregates"
    /\ Len(state.transactions) = 2
    /\ state.transactions[1].customer = "" /\ state.transactions[2].customer = ""
    /\ \E k \in 1..Len(state.customers) :
           /\ state.customers[k].name = "ISIMSIZ"
           /\ state.customers[k].phone = ""
           /\ state.customers[k].veresiye = 3
           /\ state.customers[k].satis = 4
    /\ \E k \in 1..Len(state.customers) : state.customers[k].name = "Ahmet"

\* C39: the deletion of a transaction and the deletion of a customer with
\* the transactions of that customer leave the products as they are, in
\* memory and in the store: the stock a deleted sale took is not given back
\* and the stock a deleted return brought is not taken away
C39_DeleteLeavesStock ==
    [][lastOp'.op \in {"deleteTransaction", "deleteCustomer"}
       => /\ state'.products = state.products
          /\ LedgerFiles(files', currentDatabaseId').products.data = state.products
          /\ currentDatabaseId' = currentDatabaseId]_vars

\* a sale of the whole stock has been deleted and the stock is still 0
C39_Witness ==
    /\ lastOp.op = "deleteTransaction" /\ lastOp.outcome = "deleted"
    /\ lastOp.tx.type = "SATIS" /\ lastOp.tx.quantity = MaxStock
    /\ lastOp.tx \notin Range(state.transactions)
    /\ Len(state.products) = 1 /\ state.products[1].stock = 0
    /\ toLowerCase(state.products[1].name) = toLowerCase(lastOp.tx.productName)

\* a customer has been deleted with a return, and the stock the return
\* brought is still there
C39_WitnessCascade ==
    /\ lastOp.op = "deleteCustomer" /\ lastOp.outcome = "deleted"
    /\ state.transactions = <<>>
    /\ LedgerFiles(files, currentDatabaseId).transactions.data = <<>>
    /\ Len(state.products) = 1 /\ state.products[1].stock = 1

====
